---- MODULE Spec2Model ----
(***************************************************************************)
(* HypeOn Copilot chat front end: the chat hook (useHypeonChat), the       *)
(* streaming transport client (ChatService.chatStream) and the state they  *)
(* reconcile: messages, stages, progress, sessions.                        *)
(*                                                                         *)
(* Five specifications share the same actions and operators:              *)
(*   Spec        the hook as a store: sends, renders, responses, frames    *)
(*   SpecStream  one streamed request with the frames that carry content   *)
(*   SpecStages  one streamed request with the stage-tracker events        *)
(*   SpecWire    chatStream's read loop over a byte stream cut in chunks   *)
(*   SpecTables  normalizeTableData over raw table payloads                *)
(***************************************************************************)
EXTENDS Integers, Sequences, FiniteSets, TLC

\* ------------------------------------------------------------------ bounds
\* invocations of sendMessage/sendMessageStream that start a request
MaxSends == 2
\* frames delivered to the hook, over all streams
MaxFrames == 3
\* the values Date.now() takes are 0..MaxTime
MaxTime == 1
\* units (frames, lines) the server writes on one stream (SpecWire)
MaxUnits == 2
\* symbols one read() returns at most (SpecWire)
MaxChunk == 3
\* tables in one raw table list (SpecTables)
MaxTables == 1
\* the clock of the progress display runs from 0 to 100 * MaxTicks ms
MaxTicks == 12
\* progress updates the chat page renders (SpecProgressPage)
MaxUpdates == 4
MaxOps == 2
\* loadSessions and loadSession calls the application makes (SpecSessions)
MaxLoads == 2
\* milliseconds the clock of the throttled function advances (SpecThrottle)
MaxThrottleTime == 8

\* ------------------------------------------------------- JavaScript values
\* A JSON/JavaScript value is tagged with its type, so that ===, truthiness,
\* ?? and String() are computed as JavaScript computes them.
Undef == [t |-> "undefined"]
Null == [t |-> "null"]
Str(s) == [t |-> "string", v |-> s]
Num(n) == [t |-> "number", v |-> n]
Arr(a) == [t |-> "array", v |-> a]

\* an object: its fields beside the tag
Obj == [t |-> "object"]

IsArray(x) == x.t = "array"

\* o.k of an object: undefined when it has no such field
Field(o, k) == IF k \in DOMAIN o THEN o[k] ELSE Undef

Truthy(x) ==
  CASE x.t = "undefined" -> FALSE
    [] x.t = "null" -> FALSE
    [] x.t = "string" -> x.v # ""
    [] x.t = "number" -> x.v # 0
    [] OTHER -> TRUE

\* a || b
Or(a, b) == IF Truthy(a) THEN a ELSE b

\* a ?? b
Coalesce(a, b) == IF a.t \in {"undefined", "null"} THEN b ELSE a

\* String(x) for the values a wire payload holds
RECURSIVE JoinStrings(_)
JSString(x) ==
  CASE x.t = "undefined" -> "undefined"
    [] x.t = "null" -> "null"
    [] x.t = "string" -> x.v
    [] x.t = "number" -> ToString(x.v)
    [] x.t = "array" -> JoinStrings(x.v)
    [] OTHER -> "[object Object]"
JoinStrings(a) ==
  IF a = <<>> THEN ""
  ELSE IF Len(a) = 1
       THEN (IF a[1].t \in {"undefined", "null"} THEN "" ELSE JSString(a[1]))
       ELSE (IF a[1].t \in {"undefined", "null"} THEN "" ELSE JSString(a[1]))
            \o "," \o JoinStrings(Tail(a))

\* ------------------------------------------------------------ normalizer
\* a cell conversion that quotes the text
normalizeCellQuoted(cell) == Str("'" \o JSString(Coalesce(cell, Str(""))) \o "'")

normalizeCell(cell) == Str(JSString(Coalesce(cell, Str(""))))

normalizeRow(row) ==
  IF IsArray(row) THEN Arr([i \in 1..Len(row.v) |-> normalizeCell(row.v[i])]) ELSE Arr(<<>>)

normalizeColumn(col) ==
  [t |-> "object",
   name |-> Str(JSString(Or(Field(col, "name"), Str("")))),
   type |-> Or(Field(col, "type"), Str("string")),
   unit |-> IF Truthy(Field(col, "unit")) THEN Str(JSString(col.unit)) ELSE Undef,
   description |-> IF Truthy(Field(col, "description"))
                   THEN Str(JSString(col.description)) ELSE Undef,
   format |-> IF Truthy(Field(col, "format")) THEN Str(JSString(col.format)) ELSE Undef]

\* a header conversion that leaves the raw value as it is
normalizeHeaderRaw(h) == h

normalizeHeader(h) == Str(JSString(Coalesce(h, Str(""))))

normalizeTable(table) ==
  LET columns == IF IsArray(Field(table, "columns"))
                 THEN Arr([i \in 1..Len(table.columns.v) |->
                             normalizeColumn(table.columns.v[i])])
                 ELSE Undef
  IN [t |-> "object",
      id |-> IF Truthy(Field(table, "id")) THEN Str(JSString(table.id)) ELSE Undef,
      title |-> Str(JSString(Or(Field(table, "title"), Str("")))),
      description |-> IF Truthy(Field(table, "description"))
                      THEN Str(JSString(table.description)) ELSE Undef,
      rows |-> IF IsArray(Field(table, "rows"))
               THEN Arr([i \in 1..Len(table.rows.v) |-> normalizeRow(table.rows.v[i])])
               ELSE Arr(<<>>),
      footer |-> IF Truthy(Field(table, "footer")) THEN Str(JSString(table.footer))
                 ELSE Null,
      columns |-> columns,
      headers |-> IF IsArray(Field(table, "headers"))
                  THEN Arr([i \in 1..Len(table.headers.v) |->
                              normalizeHeader(table.headers.v[i])])
                  ELSE IF ~Truthy(columns) THEN Arr(<<>>) ELSE Undef]

\* tables: a JavaScript value; the result is a sequence of TableData
normalizeTableData(tables) ==
  IF ~IsArray(tables) THEN <<>>
  ELSE [i \in 1..Len(tables.v) |-> normalizeTable(tables.v[i])]

\* ------------------------------------------------------------------ text
\* String.prototype.trim on the texts the model uses: the only texts with
\* leading or trailing white space are these.
Trim(s) ==
  CASE s = " " -> ""
    [] s = " Found 48 sources " -> "Found 48 sources"
    [] OTHER -> s

\* Math.ceil(text.length / 4)
estimateTokens(text) == (Len(text) + 3) \div 4

\* (latencyMs / 1000).toFixed(1), for latencies that are no rounding tie
ToFixed1(ms) ==
  LET tenths == (ms + 50) \div 100
  IN ToString(tenths \div 10) \o "." \o ToString(tenths % 10)

\* --------------------------------------------------------- stage tracker
stageLabels ==
  [routing |-> "Initializing", enhance |-> "Optimizing", research |-> "Searching",
   analysis |-> "Analyzing", compose |-> "Composing", done |-> "Complete",
   error |-> "Error", unknown |-> "Processing"]

\* stageLabels[stage] || stage
Label(stage) == IF stage \in DOMAIN stageLabels THEN stageLabels[stage] ELSE stage

\* `Starting ${stageLabels[stage] || stage}...`
StartingMessage(stage) == "Starting " \o Label(stage) \o "..."

\* latencyMs ? ` (${(latencyMs / 1000).toFixed(1)}s)` : ''
LatencyText(latencyMs) ==
  IF Truthy(latencyMs) THEN " (" \o ToFixed1(latencyMs.v) \o "s)" ELSE ""

completionMessage(stage, success, latencyMs, err) ==
  IF success THEN Label(stage) \o " complete" \o LatencyText(latencyMs)
  ELSE "Failed: " \o JSString(Or(err, Str("Unknown error")))

\* the stage names and latencies frames carry
AllStages == {"routing", "research", "done", "unknown", "custom"}
AllLatencies == {Undef, Num(120), Num(1500)}

\* message.includes('complete') on the texts the model uses: the backend texts
\* that hold the word, and every synthesized completion message
IncludesComplete(m) ==
  \/ m \in {"Search complete: 5 results"}
  \/ \E s \in AllStages, l \in AllLatencies : m = completionMessage(s, TRUE, l, Undef)

\* the stages Map, in insertion order: position of a key, 0 when absent
StagePos(stgs, name) ==
  IF \E i \in 1..Len(stgs) : stgs[i].name = name
  THEN CHOOSE i \in 1..Len(stgs) : stgs[i].name = name
  ELSE 0

\* Map.prototype.set: an existing key keeps its position
StageSet(stgs, name, info) ==
  IF StagePos(stgs, name) = 0 THEN Append(stgs, info)
  ELSE [stgs EXCEPT ![StagePos(stgs, name)] = info]

\* setStages updater of the progress callback
progressStages(stgs, stage, progressValue, message) ==
  LET i == StagePos(stgs, stage)
  IN IF i # 0
     THEN StageSet(stgs, stage, [stgs[i] EXCEPT !.progress = progressValue,
                                                !.message = message])
     ELSE StageSet(stgs, stage,
            [name |-> stage, label |-> Label(stage), status |-> "active",
             progress |-> progressValue, message |-> message,
             latencyMs |-> Undef, error |-> Undef,
             stageIndex |-> Undef, totalStages |-> Undef])

\* setStages updater of the stage start callback
stageStartStages(stgs, stage, stageIndex, totalStages) ==
  LET i == StagePos(stgs, stage)
  IN IF i = 0 \/ stgs[i].message = StartingMessage(stage)
     THEN StageSet(stgs, stage,
            [name |-> stage, label |-> Label(stage), status |-> "active",
             progress |-> 0, message |-> StartingMessage(stage),
             latencyMs |-> Undef, error |-> Undef,
             stageIndex |-> stageIndex, totalStages |-> totalStages])
     ELSE StageSet(stgs, stage, [stgs[i] EXCEPT !.status = "active",
                                                !.stageIndex = stageIndex,
                                                !.totalStages = totalStages])

\* setStages updater of the stage complete callback
stageCompleteStages(stgs, stage, success, latencyMs, err) ==
  LET i == StagePos(stgs, stage)
      preserveMessage == /\ i # 0
                         /\ stgs[i].message # ""
                         /\ stgs[i].message # StartingMessage(stage)
                         /\ ~IncludesComplete(stgs[i].message)
                         /\ success
      status == IF success THEN "completed" ELSE "failed"
      prog == IF success THEN 10 ELSE 0
      lat == Or(latencyMs, Undef)
      er == Or(err, Undef)
  IN IF i # 0
     THEN StageSet(stgs, stage,
            [stgs[i] EXCEPT !.status = status, !.progress = prog,
                            !.latencyMs = lat, !.error = er,
                            !.message = IF preserveMessage THEN stgs[i].message
                                        ELSE completionMessage(stage, success, latencyMs, err)])
     ELSE StageSet(stgs, stage,
            [name |-> stage, label |-> Label(stage), status |-> status,
             progress |-> prog, message |-> completionMessage(stage, success, latencyMs, err),
             latencyMs |-> lat, error |-> er,
             stageIndex |-> Undef, totalStages |-> Undef])

\* setStages updater of the completion callback: every active stage completes
doneStages(stgs) ==
  [i \in 1..Len(stgs) |->
     IF stgs[i].status = "active"
     THEN [stgs[i] EXCEPT !.status = "completed", !.progress = 10]
     ELSE stgs[i]]

\* ------------------------------------------------- chatStream: dispatch
\* data.message?.trim() || 'Processing...'
progressMessage(data) ==
  LET m == Field(data, "message")
  IN IF m.t = "string" /\ Trim(m.v) # "" THEN Trim(m.v) ELSE "Processing..."

\* data.metadata || {}, with data.sectionTitles copied in when present
Metadata(data) ==
  [t |-> "object", metadata |-> Or(Field(data, "metadata"), Obj),
   sectionTitles |-> Field(data, "sectionTitles")]

\* The callbacks the switch over data.type invokes for one parsed frame, in
\* order. Progress values are in tenths (10 is 1.0).
Dispatch(data) ==
  LET type == Field(data, "type")
      stage == Or(Field(data, "stage"), Str("unknown")).v
  IN CASE type = Str("stage_start") ->
            <<[cb |-> "onStageStart", stage |-> stage,
               stageIndex |-> Coalesce(Field(data, "stage_index"), Num(0)),
               totalStages |-> Coalesce(Field(data, "total_stages"), Num(1))]>>
            \o (IF Truthy(Field(data, "message"))
                THEN <<[cb |-> "onProgress", stage |-> stage, progress |-> 0,
                        message |-> Field(data, "message").v]>>
                ELSE <<>>)
       [] type = Str("progress") ->
            <<[cb |-> "onProgress", stage |-> stage,
               progress |-> Or(Field(data, "progress"), Num(0)).v,
               message |-> progressMessage(data)]>>
       [] type \in {Str("token"), Str("chunk")} ->
            LET tokenContent == Or(Field(data, "content"), Str("")).v
                isDone == Truthy(Field(data, "done"))
            IN IF tokenContent # "" \/ isDone
               THEN <<[cb |-> "onChunk", chunk |-> tokenContent, done |-> isDone]>>
               ELSE <<>>
       [] type = Str("stage_complete") ->
            <<[cb |-> "onStageComplete", stage |-> stage,
               success |-> Field(data, "success") # [t |-> "boolean", v |-> FALSE],
               latencyMs |-> Field(data, "latency_ms"),
               error |-> Field(data, "error")]>>
       [] type = Str("table") ->
            IF Truthy(Field(data, "table"))
            THEN <<[cb |-> "onTable",
                    table |-> normalizeTableData(Arr(<<data.table>>))[1]]>>
            ELSE <<>>
       [] type = Str("insight") ->
            IF Truthy(Field(data, "insight"))
            THEN <<[cb |-> "onInsight", insight |-> data.insight]>>
            ELSE <<>>
       [] type = Str("artifact") ->
            IF Truthy(Field(data, "artifact"))
            THEN <<[cb |-> "onArtifact", artifact |-> data.artifact]>>
            ELSE <<>>
       [] type = Str("research_plan") ->
            <<[cb |-> "onResearchPlan",
               plan |-> [t |-> "object",
                         searchTerms |-> Or(Field(data, "search_terms"), Arr(<<>>)),
                         objectives |-> Or(Field(data, "objectives"), Arr(<<>>)),
                         dataPoints |-> Or(Field(data, "data_points"), Arr(<<>>)),
                         sources |-> Or(Field(data, "sources"), Arr(<<>>)),
                         timeSensitivity |-> Field(data, "time_sensitivity"),
                         geographicScope |-> Field(data, "geographic_scope"),
                         note |-> Field(data, "note")]]>>
       [] type = Str("done") ->
            <<[cb |-> "onProgress", stage |-> "done", progress |-> 10,
               message |-> "Complete"],
              [cb |-> "onComplete", sessionId |-> Field(data, "session_id"),
               tables |-> IF Truthy(Field(data, "tables"))
                          THEN Arr(normalizeTableData(data.tables)) ELSE Undef,
               explanation |-> Or(Field(data, "explanation"), Null),
               insights |-> Or(Field(data, "insights"), Arr(<<>>)),
               artifacts |-> Or(Field(data, "artifacts"), Arr(<<>>)),
               metadata |-> Metadata(data)]>>
       [] type = Str("error") ->
            <<[cb |-> "onError",
               error |-> JSString(Or(Field(data, "error"), Str("Unknown error"))),
               code |-> Field(data, "code")]>>
       [] OTHER -> <<>>

\* "Process remaining buffer": the callbacks invoked for the frame that is
\* still pending when the stream closes
DispatchRemaining(data) ==
  IF Field(data, "type") = Str("done")
  THEN <<[cb |-> "onComplete", sessionId |-> Field(data, "session_id"),
          tables |-> IF Truthy(Field(data, "tables"))
                     THEN Arr(normalizeTableData(data.tables)) ELSE Undef,
          explanation |-> Or(Field(data, "explanation"), Null),
          insights |-> Or(Field(data, "insights"), Arr(<<>>)),
          artifacts |-> Or(Field(data, "artifacts"), Arr(<<>>)),
          metadata |-> Metadata(data)]>>
  ELSE <<>>

\* ------------------------------------------------------------ the hook
VARIABLES
  messages, sessionId, sessions, loading, error, currentSession, progress,
  stages, progressUpdateCounter, researchPlan,   \* useState cells of the hook
  token,            \* options.token
  savedSessionId,   \* localStorage['current_session_id']
  rendered,         \* the state the callbacks of the last render closed over
  reqs,             \* the calls of sendMessage/sendMessageStream, in call order
  chatLimiter,      \* chatRateLimiter's timestamps for key 'chat'
  sessionLoads,     \* getSessions calls not yet settled
  now,              \* Date.now() when it was last read
  nframes,          \* frames delivered so far
  script,           \* SpecWire: what the server writes on the stream
  pos,              \* SpecWire: symbols of the stream read so far
  buffer,           \* chatStream: buffer
  calls,            \* chatStream: the callbacks invoked so far, in order
  wstatus,          \* chatStream: "reading", "returned" or "thrown"
  rawTables,        \* SpecTables: the raw payload handed to normalizeTableData
  normalized,       \* SpecTables: its normalization
  renormalized,     \* SpecTables: the normalization of the normalization
  passes,           \* SpecTables: normalizeTableData calls made, 0..2
  props,            \* ProgressIndicator: the props {status, stage, progress}
  displayed,        \* ProgressIndicator: displayedStatus/Stage/Progress
  lastUpdateTime,   \* ProgressIndicator: lastUpdateTimeRef.current
  timeoutDue,       \* ProgressIndicator: when timeoutRef fires, -1 without timer
  pendingUpdate,    \* ProgressIndicator: pendingUpdateRef.current
  clock,            \* the time in ms the progress display reads with Date.now()
  displayedSince,   \* when the displayed triple last changed (history)
  updatesInWindow,  \* updates received since then, counted up to 2 (history)
  progressKey,      \* chat page: the key of the ProgressContainer element
  chats,            \* chat page: useState chats, a list of {id, title}
  activeChatId,     \* chat page: useState activeChatId
  pageMessages,     \* chat page: useState messages, the displayed messages
  isUpdating,       \* chat page: useState isUpdating
  server,           \* the sessions the backend holds
  pageOp,           \* chat page: the renameChat/deleteChat call under way
  nops,             \* renameChat/deleteChat calls made so far
  limiter,          \* SpecLimiter: the RateLimiter instance, its options
  requestsByKey,    \* RateLimiter: this.requests, key -> timestamps
  limiterNow,       \* SpecLimiter: Date.now()
  timeSteps,        \* SpecLimiter: time steps taken so far
  allowedLog,       \* key -> the times of the calls isAllowed allowed (history)
  lastCall,         \* the last isAllowed call and what it returned (history)
  throttled,        \* SpecThrottle: the closure of one throttle(func, waitMs)
  sessionCalls,     \* the loadSessions and loadSession calls, in call order
  isAuthDisabled    \* development build with NEXT_PUBLIC_DISABLE_AUTH=true

hookVars == <<messages, sessionId, sessions, loading, error, currentSession,
              progress, stages, progressUpdateCounter, researchPlan>>
vars == <<messages, sessionId, sessions, loading, error, currentSession, progress,
          stages, progressUpdateCounter, researchPlan, token, savedSessionId,
          rendered, reqs, chatLimiter, sessionLoads, now, nframes,
          script, pos, buffer, calls, wstatus,
          rawTables, normalized, renormalized, passes,
          props, displayed, lastUpdateTime, timeoutDue, pendingUpdate, clock,
          displayedSince, updatesInWindow, progressKey,
          chats, activeChatId, pageMessages, isUpdating, server, pageOp, nops,
          limiter, requestsByKey, limiterNow, timeSteps, allowedLog, lastCall,
          throttled, sessionCalls, isAuthDisabled>>
loaderVars == <<sessionCalls, isAuthDisabled>>
pageVars == <<chats, activeChatId, pageMessages, isUpdating, server, pageOp, nops>>
limiterVars == <<limiter, requestsByKey, limiterNow, timeSteps, allowedLog, lastCall,
                 throttled>>
wireVars == <<script, pos, buffer, calls, wstatus>>
tableVars == <<rawTables, normalized, renormalized, passes>>
indicatorVars == <<props, displayed, lastUpdateTime, timeoutDue, pendingUpdate,
                   clock, displayedSince, updatesInWindow, progressKey>>
storeVars == <<messages, sessionId, sessions, loading, error, currentSession,
               progress, stages, progressUpdateCounter, researchPlan, token,
               savedSessionId, rendered, reqs, chatLimiter, sessionLoads, now,
               nframes>>
\* what the hook's actions leave alone, and what the read loop's do
outsideStore == <<wireVars, tableVars, indicatorVars, pageVars, limiterVars, loaderVars>>
outsideWire == <<storeVars, tableVars, indicatorVars, pageVars, limiterVars, loaderVars>>
outsideTables == <<storeVars, wireVars, indicatorVars, pageVars, limiterVars, loaderVars>>
outsideIndicator == <<storeVars, wireVars, tableVars, pageVars, limiterVars, loaderVars>>
outsidePage == <<wireVars, tableVars, indicatorVars, limiterVars, loaderVars>>
outsideLimiter == <<storeVars, wireVars, tableVars, indicatorVars, pageVars, loaderVars>>
outsideLoader == <<wireVars, tableVars, indicatorVars, pageVars, limiterVars>>

\* chatRateLimiter: 5 requests per 60 000 ms
ChatMaxRequests == 5
ChatWindowMs == 60000

\* RateLimiter.isAllowed: the timestamps still inside the window
validRequests(requests, t, windowMs) ==
  SelectSeq(requests, LAMBDA ts : t - ts < windowMs)

\* isAllowed with the comparison turned into "at most maxRequests"
isAllowedInclusive(requests, t, maxRequests, windowMs) ==
  Len(validRequests(requests, t, windowMs)) <= maxRequests

isAllowed(requests, t, maxRequests, windowMs) ==
  Len(validRequests(requests, t, windowMs)) < maxRequests

MessageId(prefix, t) == [p |-> prefix, t |-> t]

\* A Message. Optional fields a message was built without hold their empty
\* value (isStreaming FALSE, no tables, undefined).
userMessage(t, sid, text) ==
  [message_id |-> MessageId("temp", t), session_id |-> Or(sid, Str("temp")),
   role |-> "user", content |-> text, isStreaming |-> FALSE, tables |-> <<>>,
   insights |-> <<>>, artifacts |-> <<>>, explanation |-> Undef,
   token_count |-> Undef, isNew |-> FALSE, metadata |-> Undef]

streamingMessage(t, sid) ==
  [message_id |-> MessageId("streaming", t), session_id |-> Or(sid, Str("temp")),
   role |-> "assistant", content |-> "", isStreaming |-> TRUE, tables |-> <<>>,
   insights |-> <<>>, artifacts |-> <<>>, explanation |-> Undef,
   token_count |-> Undef, isNew |-> FALSE, metadata |-> Undef]

\* prev.filter(m => !ids.has(m.message_id))
WithoutIds(msgs, ids) == SelectSeq(msgs, LAMBDA m : m.message_id \notin ids)

\* "Merge progressive tables with final tables (final takes precedence)"
RECURSIVE mergeTables(_, _)
mergeTables(allTables, finals) ==
  IF finals = <<>> THEN allTables
  ELSE LET finalTable == Head(finals)
           hit == {i \in 1..Len(allTables) : allTables[i].id = finalTable.id}
       IN IF hit # {}
          THEN mergeTables([allTables EXCEPT ![CHOOSE i \in hit : \A j \in hit : i <= j]
                                               = finalTable], Tail(finals))
          ELSE mergeTables(Append(allTables, finalTable), Tail(finals))

\* ---- the callbacks sendMessageStream hands to chatStream. Each maps the
\* store st (the hook's cells, with req: the locals of the call) to the store
\* after the callback. c is the callback's arguments.
onChunk(st, c) ==
  IF c.chunk # ""
  THEN [st EXCEPT !.req.assistantContent = @ \o c.chunk,
                  !.req.tokenCount = @ + estimateTokens(c.chunk)]
  ELSE st

\* a completion callback that writes nothing once the placeholder has left
\* the message list
onCompleteIfPlaceholder(st, c, t, tok) ==
  IF \E i \in DOMAIN st.messages :
       st.messages[i].message_id = st.req.streamingMessageId
  THEN [st EXCEPT !.sessionId = IF ~Truthy(st.req.sessionId) THEN c.sessionId ELSE @,
                  !.saved = IF ~Truthy(st.req.sessionId) THEN c.sessionId ELSE @,
                  !.progress = <<>>, !.stages = doneStages(@)]
  ELSE st

onComplete(st, c, t, tok) ==
  LET allTables == mergeTables(st.req.streamingTables,
                               IF Truthy(c.tables) THEN c.tables.v ELSE <<>>)
      assistantMessage ==
        [message_id |-> MessageId("msg", t), session_id |-> c.sessionId,
         role |-> "assistant", content |-> st.req.assistantContent,
         isStreaming |-> FALSE,
         tables |-> IF Len(allTables) > 0 THEN allTables
                    ELSE IF Truthy(c.tables) THEN c.tables.v ELSE <<>>,
         insights |-> st.req.streamingInsights \o c.insights.v,
         artifacts |-> st.req.streamingArtifacts \o c.artifacts.v,
         explanation |-> Or(c.explanation, Null),
         token_count |-> Num(st.req.tokenCount), isNew |-> TRUE,
         metadata |-> Or(c.metadata, Obj)]
  IN [st EXCEPT
        !.sessionId = IF ~Truthy(st.req.sessionId) THEN c.sessionId ELSE @,
        !.saved = IF ~Truthy(st.req.sessionId) THEN c.sessionId ELSE @,
        !.messages = [i \in 1..Len(@) |->
                        IF @[i].message_id = st.req.streamingMessageId
                        THEN assistantMessage ELSE @[i]],
        !.progress = <<>>,
        !.stages = doneStages(@),
        !.loads = IF Truthy(tok) THEN @ + 1 ELSE @]

onProgress(st, c) ==
  LET message == IF Trim(c.message) # "" THEN Trim(c.message) ELSE "Processing..."
  IN [st EXCEPT
        !.progress = <<[stage |-> c.stage, progress |-> c.progress, message |-> message]>>,
        !.counter = @ + 1,
        !.stages = progressStages(@, c.stage, c.progress, message)]

onTable(st, c) ==
  LET tables == Append(st.req.streamingTables, c.table)
  IN [st EXCEPT
        !.req.streamingTables = tables,
        !.messages = [i \in 1..Len(@) |->
                        IF @[i].message_id = st.req.streamingMessageId
                        THEN [@[i] EXCEPT !.tables = tables, !.isStreaming = TRUE]
                        ELSE @[i]]]

onInsight(st, c) ==
  LET insights == Append(st.req.streamingInsights, c.insight)
  IN [st EXCEPT
        !.req.streamingInsights = insights,
        !.messages = [i \in 1..Len(@) |->
                        IF @[i].message_id = st.req.streamingMessageId
                        THEN [@[i] EXCEPT !.insights = insights, !.isStreaming = TRUE]
                        ELSE @[i]]]

onArtifact(st, c) ==
  LET artifacts == Append(st.req.streamingArtifacts, c.artifact)
  IN [st EXCEPT
        !.req.streamingArtifacts = artifacts,
        !.messages = [i \in 1..Len(@) |->
                        IF @[i].message_id = st.req.streamingMessageId
                        THEN [@[i] EXCEPT !.artifacts = artifacts, !.isStreaming = TRUE]
                        ELSE @[i]]]

onStageStart(st, c) ==
  [st EXCEPT !.stages = stageStartStages(@, c.stage, c.stageIndex, c.totalStages)]

onStageComplete(st, c) ==
  [st EXCEPT !.stages = stageCompleteStages(@, c.stage, c.success, c.latencyMs, c.error)]

onResearchPlan(st, c) == [st EXCEPT !.researchPlan = c.plan]

\* an error callback that always takes the placeholder out
onErrorRemovesPlaceholder(st, c) ==
  [st EXCEPT
     !.error = Str(c.error),
     !.progress = <<>>,
     !.messages = WithoutIds(@, {st.req.streamingMessageId})]

onError(st, c) ==
  [st EXCEPT
     !.error = Str(c.error),
     !.progress = <<>>,
     !.messages =
        IF st.req.assistantContent # ""
        THEN [i \in 1..Len(@) |->
                IF @[i].message_id = st.req.streamingMessageId
                THEN [@[i] EXCEPT !.isStreaming = FALSE,
                                  !.content = st.req.assistantContent]
                ELSE @[i]]
        ELSE WithoutIds(@, {st.req.streamingMessageId})]

Callback(st, c, t, tok) ==
  CASE c.cb = "onChunk" -> onChunk(st, c)
    [] c.cb = "onComplete" -> onComplete(st, c, t, tok)
    [] c.cb = "onProgress" -> onProgress(st, c)
    [] c.cb = "onTable" -> onTable(st, c)
    [] c.cb = "onInsight" -> onInsight(st, c)
    [] c.cb = "onArtifact" -> onArtifact(st, c)
    [] c.cb = "onStageStart" -> onStageStart(st, c)
    [] c.cb = "onStageComplete" -> onStageComplete(st, c)
    [] c.cb = "onResearchPlan" -> onResearchPlan(st, c)
    [] c.cb = "onError" -> onError(st, c)

\* the callbacks of one frame, applied in order
RECURSIVE Callbacks(_, _, _, _)
Callbacks(st, cs, t, tok) ==
  IF cs = <<>> THEN st
  ELSE Callbacks(Callback(st, Head(cs), t, tok), Tail(cs), t, tok)

\* ------------------------------------------------------------- actions
Store(r) ==
  [messages |-> messages, sessionId |-> sessionId, saved |-> savedSessionId,
   error |-> error, progress |-> progress, stages |-> stages,
   counter |-> progressUpdateCounter, researchPlan |-> researchPlan,
   loads |-> sessionLoads, req |-> reqs[r]]

Commit(st, r) ==
  /\ messages' = st.messages
  /\ sessionId' = st.sessionId
  /\ savedSessionId' = st.saved
  /\ error' = st.error
  /\ progress' = st.progress
  /\ stages' = st.stages
  /\ progressUpdateCounter' = st.counter
  /\ researchPlan' = st.researchPlan
  /\ sessionLoads' = st.loads
  /\ reqs' = [reqs EXCEPT ![r] = st.req]

Request(kind, message, t) ==
  [kind |-> kind, status |-> "fetching", message |-> message,
   sessionId |-> rendered.sessionId,
   userMessageId |-> MessageId("temp", t),
   streamingMessageId |-> MessageId("streaming", t),
   assistantContent |-> "", tokenCount |-> 0, streamingTables |-> <<>>,
   streamingInsights |-> <<>>, streamingArtifacts |-> <<>>,
   \* history, read by the properties only: the message list before the call,
   \* the frames the read loop has parsed for this request
   messagesBefore |-> messages, frames |-> <<>>]

\* a request whose fetch or stream has not ended
Open(r) == reqs[r].status \in {"fetching", "streaming"}

\* React re-renders the hook: the callbacks close over the current state
Render ==
  /\ rendered # [loading |-> loading, sessionId |-> sessionId]
  /\ rendered' = [loading |-> loading, sessionId |-> sessionId]
  /\ UNCHANGED <<hookVars, token, savedSessionId, reqs, chatLimiter, sessionLoads,
                 now, nframes>>
  /\ UNCHANGED outsideStore

\* sendMessageStream(message, onChunk, onProgress), up to its await. elapsed:
\* the time that has passed since Date.now() was last read.
sendMessageStream(message, elapsed) ==
  IF Trim(message) = "" \/ rendered.loading
  THEN UNCHANGED vars
  ELSE /\ Len(reqs) < MaxSends
       /\ now + elapsed <= MaxTime
       /\ now' = now + elapsed
       /\ loading' = TRUE
       /\ error' = Null
       /\ progress' = <<[stage |-> "routing", progress |-> 0, message |-> "Initializing..."]>>
       /\ stages' = <<>>
       /\ progressUpdateCounter' = 0
       /\ researchPlan' = Null
       /\ messages' = messages \o <<userMessage(now', rendered.sessionId, message),
                                    streamingMessage(now', rendered.sessionId)>>
       /\ reqs' = Append(reqs, Request("stream", message, now'))
       /\ UNCHANGED <<sessionId, sessions, currentSession, token, savedSessionId,
                      rendered, chatLimiter, sessionLoads, nframes>>
       /\ UNCHANGED outsideStore

\* sendMessage(message), up to its await: chat() checks the rate limiter
\* before it fetches, and its rejection is caught before anything else runs
sendMessage(message, elapsed) ==
  IF Trim(message) = "" \/ rendered.loading
  THEN UNCHANGED vars
  ELSE /\ now + elapsed <= MaxTime
       /\ now' = now + elapsed
       /\ IF isAllowed(chatLimiter, now', ChatMaxRequests, ChatWindowMs)
          THEN /\ Len(reqs) < MaxSends
               /\ chatLimiter' = Append(validRequests(chatLimiter, now', ChatWindowMs), now')
               /\ loading' = TRUE
               /\ error' = Null
               /\ messages' = Append(messages, userMessage(now', rendered.sessionId, message))
               /\ reqs' = Append(reqs, Request("plain", message, now'))
          ELSE /\ loading' = FALSE
               /\ error' = Str("Rate limit exceeded")
               /\ messages' = WithoutIds(Append(messages,
                                 userMessage(now', rendered.sessionId, message)),
                                 {MessageId("temp", now')})
               /\ UNCHANGED <<reqs, chatLimiter>>
       /\ UNCHANGED <<sessionId, sessions, currentSession, progress, stages,
                      progressUpdateCounter, researchPlan, token, savedSessionId,
                      rendered, sessionLoads, nframes>>
       /\ UNCHANGED outsideStore

\* chat() resolves: the rest of sendMessage's try block, and its finally
chatResponds(r, response) ==
  /\ reqs[r].kind = "plain" /\ reqs[r].status = "fetching"
  /\ sessionId' = IF ~Truthy(reqs[r].sessionId) THEN response.session_id ELSE sessionId
  /\ savedSessionId' = IF ~Truthy(reqs[r].sessionId) THEN response.session_id
                       ELSE savedSessionId
  /\ messages' = Append(messages,
       [message_id |-> MessageId("msg", now), session_id |-> response.session_id,
        role |-> "assistant", content |-> response.answer, isStreaming |-> FALSE,
        tables |-> <<>>, insights |-> <<>>, artifacts |-> <<>>, explanation |-> Undef,
        token_count |-> Undef, isNew |-> FALSE, metadata |-> Undef])
  /\ sessionLoads' = IF Truthy(token) THEN sessionLoads + 1 ELSE sessionLoads
  /\ loading' = FALSE
  /\ reqs' = [reqs EXCEPT ![r].status = "returned"]
  /\ UNCHANGED <<sessions, error, currentSession, progress, stages,
                 progressUpdateCounter, researchPlan, token, rendered, chatLimiter,
                 now, nframes>>
  /\ UNCHANGED outsideStore

\* chat() rejects: sendMessage's catch and finally
chatThrows(r, err) ==
  /\ reqs[r].kind = "plain" /\ reqs[r].status = "fetching"
  /\ error' = Str(err)
  /\ messages' = WithoutIds(messages, {reqs[r].userMessageId})
  /\ loading' = FALSE
  /\ reqs' = [reqs EXCEPT ![r].status = "thrown"]
  /\ UNCHANGED <<sessionId, sessions, currentSession, progress, stages,
                 progressUpdateCounter, researchPlan, token, savedSessionId, rendered,
                 chatLimiter, sessionLoads, now, nframes>>
  /\ UNCHANGED outsideStore

\* fetch resolves with a 2xx response that has a body: the read loop starts
streamOpens(r) ==
  /\ reqs[r].kind = "stream" /\ reqs[r].status = "fetching"
  /\ reqs' = [reqs EXCEPT ![r].status = "streaming"]
  /\ UNCHANGED <<hookVars, token, savedSessionId, rendered, chatLimiter,
                 sessionLoads, now, nframes>>
  /\ UNCHANGED outsideStore

\* chatStream rejects (fetch rejected, non-2xx response, no body, a read that
\* fails): sendMessageStream's catch and finally
chatStreamThrows(r, err) ==
  /\ reqs[r].kind = "stream" /\ Open(r)
  /\ error' = Str(err)
  /\ progress' = <<>>
  /\ messages' = WithoutIds(messages, {reqs[r].userMessageId, reqs[r].streamingMessageId})
  /\ loading' = FALSE
  /\ reqs' = [reqs EXCEPT ![r].status = "thrown"]
  /\ UNCHANGED <<sessionId, sessions, currentSession, stages, progressUpdateCounter,
                 researchPlan, token, savedSessionId, rendered, chatLimiter,
                 sessionLoads, now, nframes>>
  /\ UNCHANGED outsideStore

\* the read loop parses one complete frame and runs its callbacks
receiveFrame(r, data) ==
  /\ reqs[r].kind = "stream" /\ reqs[r].status = "streaming"
  /\ nframes < MaxFrames
  /\ nframes' = nframes + 1
  /\ LET st == Callbacks(Store(r), Dispatch(data), now, token)
     IN Commit([st EXCEPT !.req.frames = Append(@, data)], r)
  /\ UNCHANGED <<sessions, loading, currentSession, token, rendered, chatLimiter,
                 now>>
  /\ UNCHANGED outsideStore

\* the stream ends: the pending buffer (rest: <<>> or <<frame>>) is processed,
\* chatStream resolves and sendMessageStream's finally runs
streamCloses(r, rest) ==
  /\ reqs[r].kind = "stream" /\ reqs[r].status = "streaming"
  /\ LET st == Callbacks(Store(r),
                         IF rest = <<>> THEN <<>> ELSE DispatchRemaining(rest[1]),
                         now, token)
     IN Commit([st EXCEPT !.req.status = "returned"], r)
  /\ loading' = FALSE
  /\ UNCHANGED <<sessions, currentSession, token, rendered, chatLimiter, now,
                 nframes>>
  /\ UNCHANGED outsideStore

newChat ==
  /\ sessionId' = Null
  /\ messages' = <<>>
  /\ currentSession' = Null
  /\ savedSessionId' = Str("new")
  /\ UNCHANGED <<sessions, loading, error, progress, stages, progressUpdateCounter,
                 researchPlan, token, rendered, reqs, chatLimiter, sessionLoads,
                 now, nframes>>
  /\ UNCHANGED outsideStore

\* a getSessions call started by refreshSessions settles: the rest of
\* loadSessions
getSessionsSettles(outcome) ==
  /\ sessionLoads > 0
  /\ sessionLoads' = sessionLoads - 1
  /\ CASE outcome.kind = "ok" -> sessions' = outcome.sessions /\ error' = Null
       [] outcome.kind = "unavailable" -> sessions' = <<>> /\ error' = Null
       [] OTHER -> sessions' = <<>> /\ error' = Str(outcome.message)
  /\ UNCHANGED <<messages, sessionId, loading, currentSession, progress, stages,
                 progressUpdateCounter, researchPlan, token, savedSessionId, rendered,
                 reqs, chatLimiter, now, nframes>>
  /\ UNCHANGED outsideStore

\* ------------------------------------------ chatStream: the read loop
\* The response body is a sequence of symbols: a newline, the two halves of
\* the 'data: ' prefix, and the pieces of a JSON text. A read() returns the
\* next few symbols, wherever that cuts the stream.
NL == [c |-> "\n"]
DataPrefix == <<[c |-> "da"], [c |-> "ta: "]>>

\* JSON.stringify(data), as the server writes it: two symbols, so that a
\* chunk can end inside the JSON text
JSONText(data) == <<[c |-> "{", of |-> data], [c |-> "}"]>>

\* JSON.parse(text): the value, or a SyntaxError. White space after the
\* value is allowed.
JSONParse(text) ==
  LET n == Len(text)
      body == IF n > 0 /\ text[n] = NL THEN SubSeq(text, 1, n - 1) ELSE text
  IN IF Len(body) = 2 /\ body[1].c = "{" /\ body[2] = [c |-> "}"]
     THEN [ok |-> TRUE, data |-> body[1].of]
     ELSE IF body = <<[c |-> "null"]>>
          THEN [ok |-> TRUE, data |-> Null]
          ELSE [ok |-> FALSE]

\* line.startsWith('data: ')
startsWithData(line) == Len(line) >= 2 /\ SubSeq(line, 1, 2) = DataPrefix

\* buffer.split('\n\n'): the pieces between the leftmost, non-overlapping
\* occurrences of the delimiter; the last piece is what follows the last one
RECURSIVE split(_)
split(s) ==
  LET idx == {i \in 1..(Len(s) - 1) : s[i] = NL /\ s[i + 1] = NL}
  IN IF idx = {} THEN <<s>>
     ELSE LET i == CHOOSE k \in idx : \A j \in idx : k <= j
          IN <<SubSeq(s, 1, i - 1)>> \o split(SubSeq(s, i + 2, Len(s)))

\* a read loop that keeps no partial frame between reads
popLineDiscarded(lines) == <<>>

\* buffer = lines.pop() || ''
popLine(lines) == lines[Len(lines)]

\* a loop body without the try/catch: what is thrown for a line escapes
handleLineUncaught(line) ==
  IF startsWithData(line)
  THEN LET parsed == JSONParse(SubSeq(line, 3, Len(line)))
       IN IF parsed.ok /\ parsed.data # Null
          THEN [calls |-> Dispatch(parsed.data), threw |-> FALSE]
          ELSE [calls |-> <<>>, threw |-> TRUE]
  ELSE [calls |-> <<>>, threw |-> FALSE]

\* the body of the for loop for one line: anything thrown while the line is
\* parsed or dispatched (a SyntaxError, the TypeError of null.type) is caught
\* and the line is dropped
handleLine(line) ==
  IF startsWithData(line)
  THEN LET parsed == JSONParse(SubSeq(line, 3, Len(line)))
       IN IF parsed.ok /\ parsed.data # Null
          THEN [calls |-> Dispatch(parsed.data), threw |-> FALSE]
          ELSE [calls |-> <<>>, threw |-> FALSE]
  ELSE [calls |-> <<>>, threw |-> FALSE]

\* for (const line of lines): an exception that escapes a line ends the loop
RECURSIVE forLines(_)
forLines(lines) ==
  IF lines = <<>> THEN [calls |-> <<>>, threw |-> FALSE]
  ELSE LET h == handleLine(Head(lines))
       IN IF h.threw THEN h
          ELSE LET rest == forLines(Tail(lines))
               IN [calls |-> h.calls \o rest.calls, threw |-> rest.threw]

\* one pass of the while loop over the chunk that read() returned
readChunk(buf, chunk) ==
  LET lines == split(buf \o chunk)
      done == forLines(SubSeq(lines, 1, Len(lines) - 1))
  IN [buffer |-> popLine(lines), calls |-> done.calls, threw |-> done.threw]

\* "Process remaining buffer", after the loop
remainingBuffer(buf) ==
  IF startsWithData(buf)
  THEN LET parsed == JSONParse(SubSeq(buf, 3, Len(buf)))
       IN IF parsed.ok /\ parsed.data # Null
          THEN DispatchRemaining(parsed.data) ELSE <<>>
  ELSE <<>>

\* What the server writes: units, each followed by the delimiter, except that
\* the last one is followed by script.tail newlines (2: terminated).
encodeUnit(u) ==
  CASE u.kind = "frame" -> DataPrefix \o JSONText(u.data)
    [] u.kind = "junk" -> DataPrefix \o <<[c |-> "{oops"]>>
    [] u.kind = "null" -> DataPrefix \o <<[c |-> "null"]>>
    [] OTHER -> <<[c |-> ": keep-alive"]>>

RECURSIVE encodeUnits(_, _)
encodeUnits(units, tail) ==
  IF units = <<>> THEN <<>>
  ELSE encodeUnit(Head(units))
       \o (IF Len(units) = 1 THEN [i \in 1..tail |-> NL] ELSE <<NL, NL>>)
       \o encodeUnits(Tail(units), tail)

Wire == encodeUnits(script.units, script.tail)

\* reader.read() resolves with the next n symbols of the body
wireRead(n) ==
  /\ wstatus = "reading"
  /\ pos < Len(Wire)
  /\ LET last == IF pos + n < Len(Wire) THEN pos + n ELSE Len(Wire)
         r == readChunk(buffer, SubSeq(Wire, pos + 1, last))
     IN /\ pos' = last
        /\ buffer' = r.buffer
        /\ calls' = calls \o r.calls
        /\ wstatus' = IF r.threw THEN "thrown" ELSE "reading"
  /\ UNCHANGED <<script, outsideWire>>

\* reader.read() resolves with done: the loop ends, the remaining buffer is
\* processed and chatStream returns
wireCloses ==
  /\ wstatus = "reading"
  /\ pos = Len(Wire)
  /\ calls' = calls \o remainingBuffer(buffer)
  /\ wstatus' = "returned"
  /\ UNCHANGED <<script, pos, buffer, outsideWire>>


\* --------------------------------------------------- ProgressIndicator
\* Progress values of the display are in thousandths (1000 is 1.0), times in
\* milliseconds.
MIN_DISPLAY_DURATION == 800
ProgressOne == 1000
ProgressThreshold == 10

NoTimeout == -1
Triple(status, stage, prog) == [status |-> status, stage |-> stage, progress |-> prog]

\* progress >= 1.0 only: a completeness test that ignores the stage
isCompleteByProgress(p) == p.progress >= ProgressOne

\* const isComplete = progress >= 1.0 || stage === 'done'
isComplete(p) == p.progress >= ProgressOne \/ p.stage = "done"

Abs(x) == IF x < 0 THEN -x ELSE x

\* hasChanged: "Small threshold for progress"
hasChanged(d, p) ==
  \/ d.status # p.status
  \/ d.stage # p.stage
  \/ Abs(d.progress - p.progress) > ProgressThreshold

\* the component's cells as one record
Indicator ==
  [props |-> props, displayed |-> displayed, last |-> lastUpdateTime,
   timeout |-> timeoutDue, pending |-> pendingUpdate]

\* a scheduling branch that queues: an update already pending stays pending
scheduleUpdateQueued(s, t) ==
  [s EXCEPT !.pending = IF s.pending # Null THEN s.pending ELSE s.props,
            !.timeout = t + (MIN_DISPLAY_DURATION - (t - s.last))]

\* "Not enough time has passed, schedule update"
scheduleUpdate(s, t) ==
  [s EXCEPT !.pending = s.props,
            !.timeout = t + (MIN_DISPLAY_DURATION - (t - s.last))]

\* the useEffect body, run at time t: the timer of the previous run is
\* cleared first (by the cleanup of that run and by the first statement)
progressEffect(s, t) ==
  LET c == [s EXCEPT !.timeout = NoTimeout]
  IN IF isComplete(c.props)
     THEN [c EXCEPT !.displayed = c.props, !.pending = Null]
     ELSE IF ~hasChanged(c.displayed, c.props) THEN c
     ELSE IF t - c.last >= MIN_DISPLAY_DURATION
          THEN [c EXCEPT !.displayed = c.props, !.last = t, !.pending = Null]
          ELSE scheduleUpdate(c, t)

\* the setTimeout callback, and the effect run its state change causes
timeoutCallback(s, t) ==
  LET shown == IF s.pending # Null
               THEN [s EXCEPT !.displayed = s.pending, !.last = t, !.pending = Null,
                              !.timeout = NoTimeout]
               ELSE [s EXCEPT !.timeout = NoTimeout]
  IN IF shown.displayed # s.displayed THEN progressEffect(shown, t) ELSE shown

\* a new component instance: useState and useRef initial values, then the
\* effect of the first render
mountIndicator(p, t) ==
  progressEffect([props |-> p, displayed |-> p, last |-> t, timeout |-> NoTimeout,
                  pending |-> Null], t)

CommitIndicator(s, arrived) ==
  /\ props' = s.props
  /\ displayed' = s.displayed
  /\ lastUpdateTime' = s.last
  /\ timeoutDue' = s.timeout
  /\ pendingUpdate' = s.pending
  /\ displayedSince' = IF s.displayed # displayed THEN clock ELSE displayedSince
  /\ updatesInWindow' = IF s.displayed # displayed THEN 0
                        ELSE IF updatesInWindow + arrived < 2
                             THEN updatesInWindow + arrived ELSE 2

\* the mounted component is rendered with new props
propsChange(u) ==
  /\ u # props
  /\ CommitIndicator(progressEffect([Indicator EXCEPT !.props = u], clock), 1)
  /\ UNCHANGED <<clock, progressKey, outsideIndicator>>

\* the timer set by the effect fires
timeoutFires ==
  /\ timeoutDue # NoTimeout
  /\ clock = timeoutDue
  /\ CommitIndicator(timeoutCallback(Indicator, clock), 0)
  /\ UNCHANGED <<clock, progressKey, outsideIndicator>>

\* 100 ms pass; a timer that is due fires before time goes on
tick ==
  /\ clock < 100 * MaxTicks
  /\ timeoutDue = NoTimeout \/ clock < timeoutDue
  /\ clock' = clock + 100
  /\ UNCHANGED <<props, displayed, lastUpdateTime, timeoutDue, pendingUpdate,
                 displayedSince, updatesInWindow, progressKey, outsideIndicator>>

\* the key of the page's <ProgressContainer>: stage, progressUpdateCounter,
\* progress and the message
ProgressKey(u, counter) ==
  [stage |-> u.stage, counter |-> counter, progress |-> u.progress,
   message |-> u.status]

\* The chat page renders a progress update of the hook. The hook has counted
\* the update in progressUpdateCounter, so the element's key differs from the
\* rendered one: React unmounts the old ProgressContainer (the effect cleanup
\* clears its timer) and mounts a new one with the update as props.
pageProgress(u) ==
  /\ progressKey.counter < MaxUpdates
  /\ progressKey' = ProgressKey(u, progressKey.counter + 1)
  /\ IF progressKey' # progressKey
     THEN CommitIndicator(mountIndicator(u, clock), 1)
     ELSE CommitIndicator(progressEffect([Indicator EXCEPT !.props = u], clock), 1)
  /\ UNCHANGED <<clock, outsideIndicator>>

\* ------------------------------------------------ the chat page
\* The page keeps its own chats, activeChatId and messages next to the
\* hook's sessions, sessionId and messages, and synchronises them in effects.
\* A page state is the record of both, as one render sees them.
Page ==
  [chats |-> chats, activeChatId |-> activeChatId, messages |-> pageMessages,
   isUpdating |-> isUpdating, backendSessions |-> sessions,
   backendSessionId |-> sessionId, backendMessages |-> messages,
   currentSession |-> currentSession, savedSessionId |-> savedSessionId,
   error |-> error]

\* { id: s.session_id, title: s.title || 'Untitled Chat' }
convertSession(s) ==
  [id |-> s.session_id, title |-> IF s.title # "" THEN s.title ELSE "Untitled Chat"]

convertSessions(ss) == [i \in 1..Len(ss) |-> convertSession(ss[i])]

\* a hook message as the page displays it
convertMessage(msg) ==
  IF msg.role = "user"
  THEN [role |-> "user", text |-> msg.content]
  ELSE [role |-> "assistant", summary |-> msg.content]

convertMessages(ms) == [i \in 1..Len(ms) |-> convertMessage(ms[i])]

\* the hook's newChat, on a page state
backendNewChat(st) ==
  [st EXCEPT !.backendSessionId = Null, !.backendMessages = <<>>,
             !.currentSession = Null, !.savedSessionId = Str("new")]

\* createNewChat without the call of the hook's newChat
createNewChatLocal(st) ==
  [st EXCEPT !.activeChatId = Null, !.messages = <<>>]

createNewChat(st) ==
  [backendNewChat(st) EXCEPT !.activeChatId = Null, !.messages = <<>>]

\* the rest of the hook's loadSessions once getSessions has settled
loadSessions(st, outcome) ==
  CASE outcome.kind = "ok" ->
         [st EXCEPT !.backendSessions = outcome.sessions, !.error = Null]
    [] outcome.kind = "unavailable" ->
         [st EXCEPT !.backendSessions = <<>>, !.error = Null]
    [] OTHER ->
         [st EXCEPT !.backendSessions = <<>>, !.error = Str(outcome.message)]

\* useEffect(..., [backendSessions, isUpdating])
sessionsEffect(st) ==
  IF st.isUpdating THEN st
  ELSE IF Len(st.backendSessions) > 0
       THEN [st EXCEPT !.chats = convertSessions(st.backendSessions)]
       ELSE LET cleared == [st EXCEPT !.chats = <<>>]
            IN IF ~Truthy(st.activeChatId) /\ Len(st.messages) = 0
               THEN createNewChat(cleared)
               ELSE cleared

\* useEffect(..., [backendSessionId])
sessionIdEffect(st) ==
  IF Truthy(st.backendSessionId)
  THEN [st EXCEPT !.activeChatId = st.backendSessionId]
  ELSE st

\* useEffect(..., [backendMessages, ...])
messagesEffect(st) ==
  [st EXCEPT !.messages = convertMessages(st.backendMessages)]

\* The effects whose dependencies differ between the render of old and the
\* render of st, in the order the page declares them. setSessions always
\* stores a new array, so sessionsSet tells whether it was called.
runEffects(old, st, sessionsSet) ==
  LET a == IF sessionsSet \/ st.isUpdating # old.isUpdating
           THEN sessionsEffect(st) ELSE st
      b == IF a.backendSessionId # old.backendSessionId
           THEN sessionIdEffect(a) ELSE a
  IN IF b.backendMessages # old.backendMessages THEN messagesEffect(b) ELSE b

\* the page renders st and runs its effects
CommitPage(st, sessionsSet) ==
  LET r == runEffects(Page, st, sessionsSet)
  IN /\ chats' = r.chats
     /\ activeChatId' = r.activeChatId
     /\ pageMessages' = r.messages
     /\ isUpdating' = r.isUpdating
     /\ sessions' = r.backendSessions
     /\ sessionId' = r.backendSessionId
     /\ messages' = r.backendMessages
     /\ currentSession' = r.currentSession
     /\ savedSessionId' = r.savedSessionId
     /\ error' = r.error
     /\ UNCHANGED <<loading, progress, stages, progressUpdateCounter, researchPlan,
                    token, rendered, reqs, chatLimiter, sessionLoads, now, nframes>>
     /\ UNCHANGED outsidePage

\* what the user sees: the chat list, the active chat and its messages
Snapshot == [chats |-> chats, activeChatId |-> activeChatId, messages |-> pageMessages]

NoOp ==
  [kind |-> "none", id |-> "", title |-> "", phase |-> "done", outcome |-> "local",
   chats |-> <<>>, wasActive |-> FALSE,
   snapshot |-> [chats |-> <<>>, activeChatId |-> Null, messages |-> <<>>]]

withTitle(cs, id, title) ==
  [i \in 1..Len(cs) |-> IF cs[i].id = id THEN [cs[i] EXCEPT !.title = title] ELSE cs[i]]

withoutChat(cs, id) == SelectSeq(cs, LAMBDA c : c.id # id)

\* renameChat(id, title), up to its first await
renameChat(id, title) ==
  /\ pageOp.phase = "done"
  /\ nops < MaxOps
  /\ title # "" /\ Trim(title) # ""
  /\ LET renamed == [Page EXCEPT !.chats = withTitle(chats, id, Trim(title))]
     IN IF Truthy(token)
        THEN /\ CommitPage([renamed EXCEPT !.isUpdating = TRUE], FALSE)
             /\ pageOp' = [kind |-> "rename", id |-> id, title |-> Trim(title),
                           phase |-> "request", outcome |-> "pending",
                           chats |-> chats, wasActive |-> FALSE,
                           snapshot |-> Snapshot]
        ELSE /\ CommitPage(renamed, FALSE)
             /\ pageOp' = [kind |-> "rename", id |-> id, title |-> Trim(title),
                           phase |-> "done", outcome |-> "local",
                           chats |-> chats, wasActive |-> FALSE,
                           snapshot |-> Snapshot]
  /\ nops' = nops + 1
  /\ UNCHANGED server

\* updateSessionTitle settles; renameChat goes on to await backendLoadSessions()
\* in its try block or in its catch block
updateSessionTitleSettles(ok) ==
  /\ pageOp.kind = "rename" /\ pageOp.phase = "request"
  /\ server' = IF ok
               THEN [i \in 1..Len(server) |->
                       IF server[i].session_id = pageOp.id
                       THEN [server[i] EXCEPT !.title = pageOp.title] ELSE server[i]]
               ELSE server
  /\ pageOp' = [pageOp EXCEPT !.phase = "reload",
                               !.outcome = IF ok THEN "accepted" ELSE "rejected"]
  /\ UNCHANGED <<chats, activeChatId, pageMessages, isUpdating, nops>>
  /\ UNCHANGED <<storeVars, outsidePage>>

\* deleteChat(id) after the user confirmed, up to its first await
deleteChat(id) ==
  /\ pageOp.phase = "done"
  /\ nops < MaxOps
  /\ LET wasActive == Str(id) = activeChatId
         removed == [Page EXCEPT !.chats = withoutChat(chats, id)]
         cleared == IF wasActive
                    THEN [removed EXCEPT !.activeChatId = Null, !.messages = <<>>]
                    ELSE removed
         remainingChats == withoutChat(chats, id)
     IN IF Truthy(token)
        THEN /\ CommitPage([cleared EXCEPT !.isUpdating = TRUE], FALSE)
             /\ pageOp' = [kind |-> "delete", id |-> id, title |-> "",
                           phase |-> "request", outcome |-> "pending",
                           chats |-> chats, wasActive |-> wasActive,
                           snapshot |-> Snapshot]
        ELSE /\ CommitPage(IF Len(remainingChats) = 0 \/ wasActive
                           THEN createNewChat(cleared) ELSE cleared, FALSE)
             /\ pageOp' = [kind |-> "delete", id |-> id, title |-> "",
                           phase |-> "done", outcome |-> "local",
                           chats |-> chats, wasActive |-> wasActive,
                           snapshot |-> Snapshot]
  /\ nops' = nops + 1
  /\ UNCHANGED server

\* deleteSession resolves; deleteChat goes on to await backendLoadSessions()
deleteSessionResolves ==
  /\ pageOp.kind = "delete" /\ pageOp.phase = "request"
  /\ server' = SelectSeq(server, LAMBDA s : s.session_id # pageOp.id)
  /\ pageOp' = [pageOp EXCEPT !.phase = "reload", !.outcome = "accepted"]
  /\ UNCHANGED <<chats, activeChatId, pageMessages, isUpdating, nops>>
  /\ UNCHANGED <<storeVars, outsidePage>>

\* deleteSession rejects: the catch block of deleteChat and its finally
deleteSessionRejects ==
  /\ pageOp.kind = "delete" /\ pageOp.phase = "request"
  /\ LET reverted == [Page EXCEPT !.chats = pageOp.chats]
         active == IF pageOp.wasActive
                   THEN [reverted EXCEPT !.activeChatId = Str(pageOp.id)]
                   ELSE reverted
     IN CommitPage([active EXCEPT !.isUpdating = FALSE], FALSE)
  /\ pageOp' = [pageOp EXCEPT !.phase = "done", !.outcome = "rejected"]
  /\ UNCHANGED <<server, nops>>

\* the getSessions call of backendLoadSessions() settles: the rest of
\* renameChat or deleteChat, with its finally
loadSessionsSettles(outcome) ==
  /\ pageOp.phase = "reload"
  /\ LET loaded == loadSessions(Page, outcome)
         remainingChats == withoutChat(pageOp.chats, pageOp.id)
         after == IF pageOp.kind = "delete"
                     /\ (Len(remainingChats) = 0 \/ pageOp.wasActive)
                  THEN createNewChat(loaded) ELSE loaded
     IN CommitPage([after EXCEPT !.isUpdating = FALSE], TRUE)
  /\ pageOp' = [pageOp EXCEPT !.phase = "done"]
  /\ UNCHANGED <<server, nops>>

\* ------------------------------------------------ RateLimiter
\* sessionRateLimiter: 20 requests per 60 000 ms
SessionMaxRequests == 20
SessionWindowMs == 60000
\* generalRateLimiter: 30 requests per 60 000 ms
GeneralMaxRequests == 30
GeneralWindowMs == 60000

chatRateLimiter ==
  [name |-> "chat", maxRequests |-> ChatMaxRequests, windowMs |-> ChatWindowMs]
sessionRateLimiter ==
  [name |-> "sessions", maxRequests |-> SessionMaxRequests, windowMs |-> SessionWindowMs]
generalRateLimiter ==
  [name |-> "general", maxRequests |-> GeneralMaxRequests, windowMs |-> GeneralWindowMs]

\* the keys an instance is called with: the ones the service passes, and the
\* parameter's default
LimiterKeys == {"chat", "sessions", "default"}
KeysOf(l) ==
  CASE l.name = "chat" -> {"chat", "default"}
    [] l.name = "sessions" -> {"sessions"}
    [] OTHER -> {"default"}

\* the time between one reading of Date.now() and the next that differs
Elapses == <<59999, 1>>

\* isAllowed(key) on the instance, at limiterNow
isAllowedCall(key) ==
  /\ key \in KeysOf(limiter)
  /\ LET kept == validRequests(requestsByKey[key], limiterNow, limiter.windowMs)
         ok == isAllowed(requestsByKey[key], limiterNow, limiter.maxRequests,
                         limiter.windowMs)
     IN /\ requestsByKey' = IF ok
                            THEN [requestsByKey EXCEPT ![key] = Append(kept, limiterNow)]
                            ELSE requestsByKey
        /\ allowedLog' = IF ok
                         THEN [allowedLog EXCEPT ![key] = Append(@, limiterNow)]
                         ELSE allowedLog
        /\ lastCall' = [key |-> key, at |-> limiterNow, result |-> ok]
  /\ UNCHANGED <<limiter, limiterNow, timeSteps, throttled, outsideLimiter>>

timePasses ==
  /\ timeSteps < Len(Elapses)
  /\ timeSteps' = timeSteps + 1
  /\ limiterNow' = limiterNow + Elapses[timeSteps + 1]
  /\ UNCHANGED <<limiter, requestsByKey, allowedLog, lastCall, throttled,
                 outsideLimiter>>

\* ------------------------------------------------------ Spec: the store
\* ------------------------------------------------------------- throttle
\* no timer is scheduled
NoTimer == -1

\* the closure of throttle(func, waitMs) as the call returns it, with the
\* clock (ms since the epoch, far beyond waitMs) and the times at which func
\* was invoked (history)
Throttle(waitMs) ==
  [waitMs |-> waitMs, timeout |-> NoTimer, lastCall |-> 0, now |-> waitMs,
   invoked |-> <<>>]

\* the wrapper is called
throttledCall ==
  /\ LET timeSinceLastCall == throttled.now - throttled.lastCall
     IN throttled' =
          IF timeSinceLastCall >= throttled.waitMs
          THEN [throttled EXCEPT !.lastCall = throttled.now,
                                 !.invoked = Append(@, throttled.now)]
          ELSE [throttled EXCEPT
                  !.timeout = throttled.now + (throttled.waitMs - timeSinceLastCall)]
  /\ UNCHANGED <<limiter, requestsByKey, limiterNow, timeSteps, allowedLog, lastCall,
                 outsideLimiter>>

\* the timer scheduled by the wrapper fires: the trailing invocation
throttleTimerFires ==
  /\ throttled.timeout # NoTimer
  /\ throttled.now >= throttled.timeout
  /\ throttled' = [throttled EXCEPT !.timeout = NoTimer,
                                    !.lastCall = throttled.now,
                                    !.invoked = Append(@, throttled.now)]
  /\ UNCHANGED <<limiter, requestsByKey, limiterNow, timeSteps, allowedLog, lastCall,
                 outsideLimiter>>

\* a millisecond passes; a timer that is due fires before the next one does
throttleTimePasses ==
  /\ throttled.now < throttled.waitMs + MaxThrottleTime
  /\ throttled.timeout = NoTimer \/ throttled.now < throttled.timeout
  /\ throttled' = [throttled EXCEPT !.now = @ + 1]
  /\ UNCHANGED <<limiter, requestsByKey, limiterNow, timeSteps, allowedLog, lastCall,
                 outsideLimiter>>

Texts == {"q", " "}
RawTableP == [t |-> "object", title |-> Str("P")]
StoreFrames ==
  {[type |-> Str("token"), content |-> Str("a")],
   [type |-> Str("table"), table |-> RawTableP],
   [type |-> Str("done"), session_id |-> Str("s1")],
   [type |-> Str("error"), error |-> Str("boom")]}
Responses == {[session_id |-> Str("s1"), answer |-> "A"]}
SessionOutcomes ==
  {[kind |-> "ok", sessions |-> <<"s1">>],
   [kind |-> "unavailable"],
   [kind |-> "failed", message |-> "Failed to load sessions"]}

InitStore ==
  /\ messages = <<>>
  /\ sessionId = Null
  /\ sessions = <<>>
  /\ loading = FALSE
  /\ error = Null
  /\ currentSession = Null
  /\ progress = <<>>
  /\ stages = <<>>
  /\ progressUpdateCounter = 0
  /\ researchPlan = Null
  /\ token = Null
  /\ savedSessionId = Null
  /\ rendered = [loading |-> FALSE, sessionId |-> Null]
  /\ reqs = <<>>
  /\ chatLimiter = <<>>
  /\ sessionLoads = 0
  /\ now = 0
  /\ nframes = 0

InitWire ==
  /\ pos = 0
  /\ buffer = <<>>
  /\ calls = <<>>
  /\ wstatus = "reading"

\* the progress display, mounted at time 0 with the props p
InitIndicator(p) ==
  /\ clock = 0
  /\ props = p
  /\ displayed = mountIndicator(p, 0).displayed
  /\ lastUpdateTime = 0
  /\ timeoutDue = NoTimeout
  /\ pendingUpdate = Null
  /\ displayedSince = 0
  /\ updatesInWindow = 0
  /\ progressKey = ProgressKey(p, 0)

\* the chat page before any session is loaded
InitPage ==
  /\ chats = <<>>
  /\ activeChatId = Null
  /\ pageMessages = <<>>
  /\ isUpdating = FALSE
  /\ server = <<>>
  /\ pageOp = NoOp
  /\ nops = 0

\* a RateLimiter instance l after construction
InitLimiter(l) ==
  /\ limiter = l
  /\ requestsByKey = [k \in LimiterKeys |-> <<>>]
  /\ limiterNow = 0
  /\ timeSteps = 0
  /\ allowedLog = [k \in LimiterKeys |-> <<>>]
  /\ lastCall = [key |-> "none", at |-> 0, result |-> TRUE]
  /\ throttled = Throttle(0)

\* no session call made yet, in a production build
InitLoader ==
  /\ sessionCalls = <<>>
  /\ isAuthDisabled = FALSE

InitTables ==
  /\ normalized = <<>>
  /\ renormalized = <<>>
  /\ passes = 0

Init ==
  /\ InitStore /\ InitWire /\ InitTables /\ InitPage /\ InitLimiter(chatRateLimiter)
  /\ InitLoader
  /\ InitIndicator(Triple("Initializing...", "routing", 0))
  /\ script = [units |-> <<>>, tail |-> 2]
  /\ rawTables = Arr(<<>>)

Next ==
  \/ Render
  \/ \E m \in Texts, elapsed \in 0..1 : sendMessageStream(m, elapsed)
  \/ \E m \in Texts, elapsed \in 0..1 : sendMessage(m, elapsed)
  \/ \E r \in 1..Len(reqs), resp \in Responses : chatResponds(r, resp)
  \/ \E r \in 1..Len(reqs) : chatThrows(r, "Request failed")
  \/ \E r \in 1..Len(reqs) : streamOpens(r)
  \/ \E r \in 1..Len(reqs) : chatStreamThrows(r, "Request failed")
  \/ \E r \in 1..Len(reqs), data \in StoreFrames : receiveFrame(r, data)
  \/ \E r \in 1..Len(reqs) : streamCloses(r, <<>>)

Spec == Init /\ [][Next]_vars

\* -------------------------------------- SpecStream: one streamed request
\* One call of sendMessageStream, from the request to the end of its stream,
\* with the frames that carry content: tokens, tables, insights, artifacts,
\* the research plan, done and error.
RawTableIdT1 == [t |-> "object", id |-> Str("t1"), title |-> Str("Q")]
RawTableF == [t |-> "object", title |-> Str("F")]
RawTableG == [t |-> "object", title |-> Str("G")]
RawTableFinalT1 == [t |-> "object", id |-> Str("t1"), title |-> Str("R")]
ErrorFrame == [type |-> Str("error"), error |-> Str("boom")]
StreamFrames ==
  {[type |-> Str("token"), content |-> Str("a")],
   [type |-> Str("chunk"), content |-> Str("b")],
   [type |-> Str("token"), content |-> Str(""), done |-> [t |-> "boolean", v |-> TRUE]],
   [type |-> Str("table"), table |-> RawTableP],
   [type |-> Str("table"), table |-> RawTableIdT1],
   [type |-> Str("insight"), insight |-> [t |-> "object", id |-> Str("i1")]],
   [type |-> Str("artifact"), artifact |-> [t |-> "object", type |-> Str("chart")]],
   [type |-> Str("research_plan"), search_terms |-> Arr(<<Str("phones")>>)],
   [type |-> Str("done"), session_id |-> Str("s1")],
   [type |-> Str("done"), session_id |-> Str("s1"),
    tables |-> Arr(<<RawTableF, RawTableG>>)],
   [type |-> Str("done"), session_id |-> Str("s1"),
    tables |-> Arr(<<RawTableFinalT1>>)],
   ErrorFrame}

NextStream ==
  \/ reqs = <<>> /\ sendMessageStream("q", 0)
  \/ Render
  \/ \E r \in 1..Len(reqs) : streamOpens(r)
  \/ \E r \in 1..Len(reqs) : chatStreamThrows(r, "Request failed")
  \/ \E r \in 1..Len(reqs), data \in StreamFrames : receiveFrame(r, data)
  \/ \E r \in 1..Len(reqs) : streamCloses(r, <<>>)
  \/ \E r \in 1..Len(reqs) :
       streamCloses(r, <<[type |-> Str("done"), session_id |-> Str("s1")]>>)
  \/ newChat

SpecStream == Init /\ [][NextStream]_vars

\* -------------------------------------- SpecStages: the stage tracker
\* One call of sendMessageStream with the frames that drive the stage map.
StageFrames ==
  {[type |-> Str("stage_start"), stage |-> Str("research"), stage_index |-> Num(1),
    total_stages |-> Num(3)],
   [type |-> Str("stage_start"), stage |-> Str("research"), stage_index |-> Num(1),
    total_stages |-> Num(3), message |-> Str("Starting Searching...")],
   [type |-> Str("progress"), stage |-> Str("research"), progress |-> Num(5),
    message |-> Str(" Found 48 sources ")],
   [type |-> Str("progress"), stage |-> Str("research"), progress |-> Num(7),
    message |-> Str("Search complete: 5 results")],
   [type |-> Str("progress"), stage |-> Str("custom"), message |-> Str(" ")],
   [type |-> Str("stage_complete"), stage |-> Str("research"),
    latency_ms |-> Num(120)],
   [type |-> Str("stage_complete"), stage |-> Str("research"),
    success |-> [t |-> "boolean", v |-> FALSE], error |-> Str("timeout")],
   [type |-> Str("stage_complete"), stage |-> Str("custom"),
    success |-> [t |-> "boolean", v |-> TRUE]],
   [type |-> Str("done"), session_id |-> Str("s1")]}

NextStages ==
  \/ reqs = <<>> /\ sendMessageStream("q", 0)
  \/ \E r \in 1..Len(reqs) : streamOpens(r)
  \/ \E r \in 1..Len(reqs), data \in StageFrames : receiveFrame(r, data)
  \/ \E r \in 1..Len(reqs) : streamCloses(r, <<>>)

SpecStages == Init /\ [][NextStages]_vars

\* -------------------------------------- SpecWire: chatStream's read loop
\* The server writes up to MaxUnits units; the network cuts them into chunks
\* of up to MaxChunk symbols.
WireFrames ==
  {[type |-> Str("token"), content |-> Str("a")],
   [type |-> Str("chunk"), content |-> Str("b")],
   [type |-> Str("stage_start"), stage |-> Str("research"),
    message |-> Str("Starting Searching...")],
   [type |-> Str("progress"), stage |-> Str("research"), progress |-> Num(5),
    message |-> Str(" Found 48 sources ")],
   [type |-> Str("stage_complete"), stage |-> Str("research"),
    latency_ms |-> Num(120)],
   [type |-> Str("table"), table |-> RawTableIdT1],
   [type |-> Str("insight"), insight |-> [t |-> "object", id |-> Str("i1")]],
   [type |-> Str("artifact"), artifact |-> [t |-> "object", type |-> Str("chart")]],
   [type |-> Str("research_plan"), search_terms |-> Arr(<<Str("phones")>>)],
   [type |-> Str("done"), session_id |-> Str("s1"),
    tables |-> Arr(<<RawTableFinalT1>>)],
   ErrorFrame,
   [type |-> Str("ping")],
   [content |-> Str("a")]}

WireUnits ==
  {[kind |-> "frame", data |-> d] : d \in WireFrames}
  \cup {[kind |-> "junk"], [kind |-> "null"], [kind |-> "comment"]}

Scripts ==
  {[units |-> <<>>, tail |-> 2]}
  \cup {[units |-> u, tail |-> k] :
          u \in UNION {[1..n -> WireUnits] : n \in 1..MaxUnits}, k \in 0..2}

NextWire ==
  \/ \E n \in 1..MaxChunk : wireRead(n)
  \/ wireCloses

InitScript ==
  /\ InitStore /\ InitWire /\ InitTables /\ InitPage /\ InitLimiter(chatRateLimiter)
  /\ InitLoader
  /\ InitIndicator(Triple("Initializing...", "routing", 0))
  /\ script \in Scripts
  /\ rawTables = Arr(<<>>)

SpecWire == InitScript /\ [][NextWire]_vars

\* -------------------------------------- SpecTables: the table normalizer
\* normalizeTableData applied to a raw payload, and then to its own result.
\* A raw table is an object; a field that holds undefined is an absent field.
RawTableValues ==
  [t : {"object"},
   id : {Undef, Num(7)},
   title : {Undef, Str("T")},
   description : {Undef, Num(3)},
   rows : {Undef, Arr(<<Arr(<<Num(1), Null>>), Str("x")>>), Arr(<<Arr(<<Str("a")>>)>>)},
   footer : {Num(0), Str("f")},
   columns : {Undef, Arr(<<>>),
              Arr(<<[t |-> "object", name |-> Str("Price"), unit |-> Num(5)],
                    [t |-> "object", type |-> Str("currency")]>>)},
   headers : {Undef, Str("H"), Arr(<<Str("H"), Null, Num(2)>>)}]

RawTableLists ==
  {Null} \cup {Arr(l) : l \in UNION {[1..n -> RawTableValues] : n \in 0..MaxTables}}

\* normalizeTableData(rawTables)
normalizeOnce ==
  /\ passes = 0
  /\ normalized' = normalizeTableData(rawTables)
  /\ passes' = 1
  /\ UNCHANGED <<rawTables, renormalized, outsideTables>>

\* normalizeTableData of the tables the first call returned
normalizeAgain ==
  /\ passes = 1
  /\ renormalized' = normalizeTableData(Arr(normalized))
  /\ passes' = 2
  /\ UNCHANGED <<rawTables, normalized, outsideTables>>

InitRawTables ==
  /\ InitStore /\ InitWire /\ InitTables /\ InitPage /\ InitLimiter(chatRateLimiter)
  /\ InitLoader
  /\ InitIndicator(Triple("Initializing...", "routing", 0))
  /\ script = [units |-> <<>>, tail |-> 2]
  /\ rawTables \in RawTableLists

NextTables ==
  \/ normalizeOnce
  \/ normalizeAgain

SpecTables == InitRawTables /\ [][NextTables]_vars

\* ------------------------------- SpecIndicator: the mounted component
\* One ProgressIndicator instance, rendered with changing props while time
\* passes.
Updates ==
  {Triple("Classifying request", "routing", 300),
   Triple("Classifying request", "routing", 305),
   Triple("Found 48 sources", "research", 600),
   Triple("Writing", "compose", 1000),
   Triple("Complete", "done", 1000),
   Triple("Finishing", "done", 900)}

InitMounted ==
  /\ InitStore /\ InitWire /\ InitTables /\ InitPage /\ InitLimiter(chatRateLimiter)
  /\ InitLoader
  /\ script = [units |-> <<>>, tail |-> 2]
  /\ rawTables = Arr(<<>>)
  /\ \E p \in Updates : InitIndicator(p)

NextIndicator ==
  \/ \E u \in Updates : propsChange(u)
  \/ timeoutFires
  \/ tick

SpecIndicator == InitMounted /\ [][NextIndicator]_vars

\* ------------------------ SpecProgressPage: the display on the chat page
\* The chat page renders the hook's progress updates through
\* <ProgressContainer key=...>.
NextProgressPage ==
  \/ \E u \in Updates : pageProgress(u)
  \/ tick

SpecProgressPage == InitMounted /\ [][NextProgressPage]_vars

\* ------------------------- SpecPage: rename and delete on the chat page
\* A user renames and deletes chats, one operation at a time. Signed in, the
\* chats are the loaded sessions and the backend accepts or rejects each
\* request; signed out, they are the list kept in localStorage.
ServerLists ==
  {<<[session_id |-> "s1", title |-> "One"]>>,
   <<[session_id |-> "s1", title |-> "One"], [session_id |-> "s2", title |-> ""]>>}
Titles == {"", " ", "Plan", " Found 48 sources "}

\* what getSessions can come to when the backend holds srv
ReloadOutcomes(srv) ==
  {[kind |-> "ok", sessions |-> srv],
   [kind |-> "unavailable"],
   [kind |-> "failed", message |-> "Failed to load sessions"]}

\* the messages of a session the user has talked in
LoadedMessages(sid) ==
  <<userMessage(0, sid, "q"),
    [streamingMessage(0, sid) EXCEPT !.content = "A", !.isStreaming = FALSE]>>

InitLoaded ==
  /\ InitWire /\ InitTables /\ InitLimiter(chatRateLimiter) /\ InitLoader
  /\ InitIndicator(Triple("Initializing...", "routing", 0))
  /\ script = [units |-> <<>>, tail |-> 2]
  /\ rawTables = Arr(<<>>)
  /\ token \in {Null, Str("jwt")}
  /\ server \in ServerLists
  /\ sessions = IF Truthy(token) THEN server ELSE <<>>
  /\ chats = convertSessions(server)
  /\ sessionId \in IF Truthy(token)
                   THEN {Null} \cup {Str(server[i].session_id) : i \in 1..Len(server)}
                   ELSE {Null}
  /\ activeChatId = sessionId
  /\ savedSessionId = sessionId
  /\ messages = IF sessionId = Null THEN <<>> ELSE LoadedMessages(sessionId)
  /\ pageMessages = convertMessages(messages)
  /\ isUpdating = FALSE
  /\ pageOp = NoOp
  /\ nops = 0
  /\ loading = FALSE
  /\ error = Null
  /\ currentSession = Null
  /\ progress = <<>>
  /\ stages = <<>>
  /\ progressUpdateCounter = 0
  /\ researchPlan = Null
  /\ rendered = [loading |-> FALSE, sessionId |-> sessionId]
  /\ reqs = <<>>
  /\ chatLimiter = <<>>
  /\ sessionLoads = 0
  /\ now = 0
  /\ nframes = 0

NextPage ==
  \/ \E i \in 1..Len(chats), title \in Titles : renameChat(chats[i].id, title)
  \/ \E ok \in BOOLEAN : updateSessionTitleSettles(ok)
  \/ \E i \in 1..Len(chats) : deleteChat(chats[i].id)
  \/ deleteSessionResolves
  \/ deleteSessionRejects
  \/ \E outcome \in ReloadOutcomes(server) : loadSessionsSettles(outcome)

SpecPage == InitLoaded /\ [][NextPage]_vars

\* ------------------------------- SpecLimiter: one RateLimiter instance
Limiters == {chatRateLimiter, sessionRateLimiter, generalRateLimiter}

InitInstance ==
  /\ InitStore /\ InitWire /\ InitTables /\ InitPage /\ InitLoader
  /\ InitIndicator(Triple("Initializing...", "routing", 0))
  /\ script = [units |-> <<>>, tail |-> 2]
  /\ rawTables = Arr(<<>>)
  /\ \E l \in Limiters : InitLimiter(l)

NextLimiter ==
  \/ \E key \in LimiterKeys : isAllowedCall(key)
  \/ timePasses

SpecLimiter == InitInstance /\ [][NextLimiter]_vars

\* --------------------------------- SpecThrottle: one throttled function
WaitTimes == {2, 3}

InitThrottle ==
  /\ InitStore /\ InitWire /\ InitTables /\ InitPage /\ InitLoader
  /\ InitIndicator(Triple("Initializing...", "routing", 0))
  /\ script = [units |-> <<>>, tail |-> 2]
  /\ rawTables = Arr(<<>>)
  /\ limiter = generalRateLimiter
  /\ requestsByKey = [k \in LimiterKeys |-> <<>>]
  /\ limiterNow = 0
  /\ timeSteps = 0
  /\ allowedLog = [k \in LimiterKeys |-> <<>>]
  /\ lastCall = [key |-> "none", at |-> 0, result |-> TRUE]
  /\ \E waitMs \in WaitTimes : throttled = Throttle(waitMs)

NextThrottle ==
  \/ throttledCall
  \/ throttleTimerFires
  \/ throttleTimePasses

SpecThrottle == InitThrottle /\ [][NextThrottle]_vars

\* ------------------------------------------ the hook: loading sessions
\* response.statusText of the statuses the model uses
StatusText(status) ==
  CASE status = 401 -> "Unauthorized"
    [] status = 403 -> "Forbidden"
    [] OTHER -> "Internal Server Error"

\* the message handleFetchError throws when fetch itself failed
BackendUnavailable ==
  "Backend unavailable at http://localhost:8080. Please ensure the backend server is running."

\* The message getSession and getSessionMessages reject with for a response
\* that is not 2xx and has no detail; status 0 stands for a failed fetch.
getSessionError(status, authDisabled) ==
  CASE status = 0 -> BackendUnavailable
    [] status = 401 /\ ~authDisabled -> "Authentication required"
    [] status = 403 -> IF authDisabled THEN "Session not found"
                       ELSE "You do not have permission to access this session"
    [] OTHER -> "Request failed: " \o StatusText(status)

\* the same for getSessions, which has no case for 403
getSessionsError(status, authDisabled) ==
  CASE status = 0 -> BackendUnavailable
    [] status = 401 /\ ~authDisabled -> "Authentication required"
    [] OTHER -> "Request failed: " \o StatusText(status)

\* message.includes(needle), on the messages above
Includes(message, needle) ==
  CASE needle = "Authentication required" -> message = "Authentication required"
    [] needle = "permission" ->
         message = "You do not have permission to access this session"
    [] needle = "Session not found" -> message = "Session not found"
    [] needle = "Backend unavailable" -> message = BackendUnavailable
    [] OTHER -> FALSE

isConnectionError(message) ==
  \/ Includes(message, "Backend unavailable")
  \/ Includes(message, "Failed to connect")
  \/ Includes(message, "Failed to fetch")

\* a loadSession call is pending
Pending(i) == sessionCalls[i].kind = "loadSession" /\ sessionCalls[i].status = "pending"

\* loadSessions(), up to its await
refreshSessions ==
  /\ Len(sessionCalls) < MaxLoads
  /\ IF ~isAuthDisabled /\ ~Truthy(token)
     THEN /\ sessions' = <<>>
          /\ sessionCalls' = Append(sessionCalls,
               [kind |-> "loadSessions", sid |-> "", status |-> "resolved",
                http |-> -1, overlaps |-> FALSE])
     ELSE /\ sessions' = sessions
          /\ sessionCalls' = Append(sessionCalls,
               [kind |-> "loadSessions", sid |-> "", status |-> "pending",
                http |-> -1, overlaps |-> FALSE])
  /\ UNCHANGED <<messages, sessionId, loading, error, currentSession, progress,
                 stages, progressUpdateCounter, researchPlan, token, savedSessionId,
                 rendered, reqs, chatLimiter, sessionLoads, now, nframes>>
  /\ UNCHANGED <<isAuthDisabled, outsideLoader>>

\* getSessions settles with the response resp: the rest of loadSessions
getSessionsResponds(i, resp) ==
  /\ sessionCalls[i].kind = "loadSessions" /\ sessionCalls[i].status = "pending"
  /\ LET m == getSessionsError(resp.status, isAuthDisabled)
         outcome == IF resp.status = 200 THEN [kind |-> "ok", sessions |-> resp.sessions]
                    ELSE IF isConnectionError(m) THEN [kind |-> "unavailable"]
                    ELSE [kind |-> "failed", message |-> m]
         st == loadSessions(Page, outcome)
     IN /\ sessions' = st.backendSessions
        /\ error' = st.error
  /\ sessionCalls' = [sessionCalls EXCEPT ![i].status = "resolved",
                                          ![i].http = resp.status]
  /\ UNCHANGED <<messages, sessionId, loading, currentSession, progress, stages,
                 progressUpdateCounter, researchPlan, token, savedSessionId,
                 rendered, reqs, chatLimiter, sessionLoads, now, nframes>>
  /\ UNCHANGED <<isAuthDisabled, outsideLoader>>

\* loadSession(sid), up to its await
loadSession(sid) ==
  /\ Len(sessionCalls) < MaxLoads
  /\ IF ~isAuthDisabled /\ ~Truthy(token)
     THEN /\ sessionId' = Str(sid)
          /\ messages' = <<>>
          /\ currentSession' = Null
          /\ savedSessionId' = Str(sid)
          /\ sessionCalls' = Append(sessionCalls,
               [kind |-> "loadSession", sid |-> sid, status |-> "resolved",
                http |-> -1, overlaps |-> FALSE])
     ELSE /\ UNCHANGED <<sessionId, messages, currentSession, savedSessionId>>
          /\ sessionCalls' = Append(sessionCalls,
               [kind |-> "loadSession", sid |-> sid, status |-> "pending",
                http |-> -1,
                overlaps |-> \E j \in DOMAIN sessionCalls : Pending(j)])
  /\ UNCHANGED <<sessions, loading, error, progress, stages, progressUpdateCounter,
                 researchPlan, token, rendered, reqs, chatLimiter, sessionLoads,
                 now, nframes>>
  /\ UNCHANGED <<isAuthDisabled, outsideLoader>>

\* Promise.all([getSession, getSessionMessages]) settles with the response
\* resp: the rest of loadSession
loadSessionResponds(i, resp) ==
  /\ Pending(i)
  /\ LET sid == sessionCalls[i].sid
         m == getSessionError(resp.status, isAuthDisabled)
         soft == \/ Includes(m, "Authentication required")
                 \/ Includes(m, "permission") /\ isAuthDisabled
                 \/ Includes(m, "Session not found") /\ isAuthDisabled
     IN IF resp.status = 200
        THEN /\ sessionId' = Str(sid)
             /\ messages' = resp.messages
             /\ currentSession' = resp.session
             /\ savedSessionId' = Str(sid)
             /\ error' = Null
             /\ sessionCalls' = [sessionCalls EXCEPT ![i].status = "resolved",
                                                     ![i].http = resp.status]
        ELSE IF soft \/ isConnectionError(m)
        THEN /\ sessionId' = Str(sid)
             /\ messages' = <<>>
             /\ currentSession' = Null
             /\ error' = Null
             /\ UNCHANGED savedSessionId
             /\ sessionCalls' = [sessionCalls EXCEPT ![i].status = "resolved",
                                                     ![i].http = resp.status]
        ELSE /\ error' = Str(m)
             /\ UNCHANGED <<sessionId, messages, currentSession, savedSessionId>>
             /\ sessionCalls' = [sessionCalls EXCEPT ![i].status = "rejected",
                                                     ![i].http = resp.status]
  /\ UNCHANGED <<sessions, loading, progress, stages, progressUpdateCounter,
                 researchPlan, token, rendered, reqs, chatLimiter, sessionLoads,
                 now, nframes>>
  /\ UNCHANGED <<isAuthDisabled, outsideLoader>>

setSession(sid) ==
  /\ sessionId' = sid
  /\ savedSessionId' = IF Truthy(sid) THEN sid ELSE Str("new")
  /\ UNCHANGED <<messages, sessions, loading, error, currentSession, progress,
                 stages, progressUpdateCounter, researchPlan, token, rendered, reqs,
                 chatLimiter, sessionLoads, now, nframes>>
  /\ UNCHANGED <<loaderVars, outsideLoader>>

\* ------------------------------ SpecSessions: the hook's session calls
\* The application loads the session list, selects sessions, sets the
\* session id and starts new chats, signed in or not; the backend answers
\* each session request with 200, 401, 403 or 500, or cannot be reached.
SessionIds == {"A", "B"}
FailureStatuses == {0, 401, 403, 500}

SessionsResponses ==
  {[status |-> 200, sessions |-> <<[session_id |-> "A", title |-> "One"]>>]}
    \cup {[status |-> s] : s \in FailureStatuses}

SessionResponses(sid) ==
  {[status |-> 200,
    session |-> [t |-> "object", session_id |-> sid, title |-> "One"],
    messages |-> LoadedMessages(Str(sid))]}
    \cup {[status |-> s] : s \in FailureStatuses}

InitSessions ==
  /\ InitWire /\ InitTables /\ InitPage /\ InitLimiter(chatRateLimiter)
  /\ InitIndicator(Triple("Initializing...", "routing", 0))
  /\ script = [units |-> <<>>, tail |-> 2]
  /\ rawTables = Arr(<<>>)
  /\ sessionCalls = <<>>
  /\ isAuthDisabled \in BOOLEAN
  /\ token \in {Null, Str("jwt")}
  /\ messages = <<>>
  /\ sessionId = Null
  /\ sessions = <<>>
  /\ loading = FALSE
  /\ error = Null
  /\ currentSession = Null
  /\ progress = <<>>
  /\ stages = <<>>
  /\ progressUpdateCounter = 0
  /\ researchPlan = Null
  /\ savedSessionId = Null
  /\ rendered = [loading |-> FALSE, sessionId |-> Null]
  /\ reqs = <<>>
  /\ chatLimiter = <<>>
  /\ sessionLoads = 0
  /\ now = 0
  /\ nframes = 0

NextSessions ==
  \/ refreshSessions
  \/ \E i \in DOMAIN sessionCalls, resp \in SessionsResponses : getSessionsResponds(i, resp)
  \/ \E sid \in SessionIds : loadSession(sid)
  \/ \E i \in DOMAIN sessionCalls :
       \E resp \in SessionResponses(sessionCalls[i].sid) : loadSessionResponds(i, resp)
  \/ \E sid \in {Null, Str("A")} : setSession(sid)
  \/ newChat

SpecSessions == InitSessions /\ [][NextSessions]_vars

\* ------------------------- SpecRange: progress frames of any numeric value
\* The server is free to send any number as the progress of a progress frame.
RangeFrames ==
  {[type |-> Str("stage_start"), stage |-> Str("research"), stage_index |-> Num(0),
    total_stages |-> Num(2)],
   [type |-> Str("progress"), stage |-> Str("research"), progress |-> Num(5),
    message |-> Str("Searching")],
   [type |-> Str("progress"), stage |-> Str("research"), progress |-> Num(15),
    message |-> Str("Searching")],
   [type |-> Str("progress"), stage |-> Str("analysis"), progress |-> Num(-5),
    message |-> Str("Analyzing")],
   [type |-> Str("done"), session_id |-> Str("s1")]}

NextRange ==
  \/ reqs = <<>> /\ sendMessageStream("q", 0)
  \/ \E r \in 1..Len(reqs) : streamOpens(r)
  \/ \E r \in 1..Len(reqs), data \in RangeFrames : receiveFrame(r, data)
  \/ \E r \in 1..Len(reqs) : streamCloses(r, <<>>)

SpecRange == Init /\ [][NextRange]_vars

\* -------------------------------- ProgressIndicator: the stage timeline
\* the stage names of the model in the order of String.prototype.localeCompare
NameOrder ==
  <<"analysis", "compose", "custom", "done", "enhance", "error", "research",
    "routing", "unknown">>

NameRank(name) == CHOOSE i \in DOMAIN NameOrder : NameOrder[i] = name

\* a.localeCompare(b): negative, zero or positive
localeCompare(a, b) ==
  IF NameRank(a) < NameRank(b) THEN -1 ELSE IF NameRank(a) > NameRank(b) THEN 1 ELSE 0

\* the comparator handed to sort: by index when both entries have one,
\* by name otherwise
compareStages(a, b) ==
  IF a.stageIndex # Undef /\ b.stageIndex # Undef
  THEN a.stageIndex.v - b.stageIndex.v
  ELSE localeCompare(a.name, b.name)

\* whether the comparator is a consistent comparator on the entries of arr:
\* "before" and "equal" are both transitive
ConsistentOn(arr) ==
  \A i, j, k \in DOMAIN arr :
    /\ compareStages(arr[i], arr[j]) < 0 /\ compareStages(arr[j], arr[k]) < 0
         => compareStages(arr[i], arr[k]) < 0
    /\ compareStages(arr[i], arr[j]) = 0 /\ compareStages(arr[j], arr[k]) = 0
         => compareStages(arr[i], arr[k]) = 0

Perms(n) == {p \in [1..n -> 1..n] : \A i, j \in 1..n : i # j => p[i] # p[j]}

Permuted(arr, p) == [i \in DOMAIN arr |-> arr[p[i]]]

\* Array.prototype.sort with the comparator: the arrays it can return.  With a
\* consistent comparator the sort is stable and its result is unique; with an
\* inconsistent one the order is implementation-defined.
SortOutcomes(arr) ==
  IF ConsistentOn(arr)
  THEN {Permuted(arr, p) : p \in
          {q \in Perms(Len(arr)) :
             \A i, j \in DOMAIN arr :
               i < j => \/ compareStages(arr[q[i]], arr[q[j]]) < 0
                        \/ /\ compareStages(arr[q[i]], arr[q[j]]) = 0
                           /\ q[i] < q[j]}}
  ELSE {Permuted(arr, p) : p \in Perms(Len(arr))}

\* stagesArray.find(s => s.status === 'active'), by name; Null without one
activeStage(stagesArray) ==
  IF \E i \in DOMAIN stagesArray : stagesArray[i].status = "active"
  THEN Str(stagesArray[CHOOSE i \in DOMAIN stagesArray :
                         /\ stagesArray[i].status = "active"
                         /\ \A j \in 1..(i - 1) : stagesArray[j].status # "active"].name)
  ELSE Null

\* the active stages the indicator can pick for the stage map stgs
ActivePicks(stgs) == {activeStage(a) : a \in SortOutcomes(stgs)}

\* s.totalStages ? s.totalStages : stagesArray.length, the inverse of stageWeight
WeightDivisor(s, n) == IF Truthy(s.totalStages) THEN s.totalStages.v ELSE n

RECURSIVE DivisorProduct(_, _)
DivisorProduct(arr, n) ==
  IF arr = <<>> THEN 1 ELSE WeightDivisor(Head(arr), n) * DivisorProduct(Tail(arr), n)

\* overallProgress of a non-empty stagesArray, times 10 * DivisorProduct:
\* the sum of s.progress * stageWeight
RECURSIVE WeightedSum(_, _, _)
WeightedSum(arr, n, d) ==
  IF arr = <<>> THEN 0
  ELSE Head(arr).progress * (d \div WeightDivisor(Head(arr), n))
       + WeightedSum(Tail(arr), n, d)

\* ------------------------- SpecTimeline: stages of a two-stage backend
\* Every progress value of the stream lies in [0,1].
TimelineFrames ==
  {[type |-> Str("stage_start"), stage |-> Str("routing"), stage_index |-> Num(0),
    total_stages |-> Num(2)],
   [type |-> Str("stage_start"), stage |-> Str("enhance"), stage_index |-> Num(1),
    total_stages |-> Num(2)],
   [type |-> Str("progress"), stage |-> Str("research"), progress |-> Num(5),
    message |-> Str("Searching")],
   [type |-> Str("stage_complete"), stage |-> Str("routing"),
    latency_ms |-> Num(120)],
   [type |-> Str("done"), session_id |-> Str("s1")]}

NextTimeline ==
  \/ reqs = <<>> /\ sendMessageStream("q", 0)
  \/ \E r \in 1..Len(reqs) : streamOpens(r)
  \/ \E r \in 1..Len(reqs), data \in TimelineFrames : receiveFrame(r, data)
  \/ \E r \in 1..Len(reqs) : streamCloses(r, <<>>)

SpecTimeline == Init /\ [][NextTimeline]_vars

\* ============================================================ properties
\* ---- helpers of the properties
OpenRequests == {r \in DOMAIN reqs : Open(r)}
StreamingMessages == {i \in DOMAIN messages : messages[i].isStreaming}

\* the frame a step of the read loop has just parsed for request r
Received(r, data) ==
  /\ r \in DOMAIN reqs'
  /\ reqs[r].status = "streaming"
  /\ reqs'[r].frames = Append(reqs[r].frames, data)

\* the in-order concatenation of the token contents of the frames
RECURSIVE TokensOf(_)
TokensOf(frames) ==
  IF frames = <<>> THEN ""
  ELSE (IF Field(Head(frames), "type") \in {Str("token"), Str("chunk")}
           /\ Field(Head(frames), "content").t = "string"
        THEN Head(frames).content.v ELSE "")
       \o TokensOf(Tail(frames))

\* the progress callbacks the frames carry for a stage, in order
RECURSIVE ProgressOf(_, _)
ProgressOf(frames, stage) ==
  IF frames = <<>> THEN <<>>
  ELSE SelectSeq(Dispatch(Head(frames)),
                 LAMBDA c : c.cb = "onProgress" /\ c.stage = stage)
       \o ProgressOf(Tail(frames), stage)

\* the message of a progress event as it is displayed
Displayed(m) == IF Trim(m) # "" THEN Trim(m) ELSE "Processing..."

\* ---- C1
\* C1: at most one chat request is open at any time, whatever the
\* interleaving of sendMessageStream/sendMessage invocations and renders.
C1_AtMostOneOpenRequest == Cardinality(OpenRequests) <= 1

\* ---- C2
\* C2: at most one message is streaming, and a message is streaming only
\* while the request that created it is still open.
C2_StreamingOnlyWhileInFlight ==
  /\ Cardinality(StreamingMessages) <= 1
  /\ \A i \in StreamingMessages :
       \E r \in OpenRequests : reqs[r].streamingMessageId = messages[i].message_id

\* ---- C3
\* C3: within one request, a stage whose status is completed or failed keeps
\* that status whatever event comes next.
C3_TerminalStageKeepsStatus ==
  [][Len(reqs') = Len(reqs) =>
       \A i \in DOMAIN stages :
         stages[i].status \in {"completed", "failed"} =>
           \E j \in DOMAIN stages' : /\ stages'[j].name = stages[i].name
                                     /\ stages'[j].status = stages[i].status]_vars

\* ---- C4
\* C4: after every event of a request, the message stored for a stage is the
\* message of the most recent progress event received for that stage.
C4_StageMessageIsLatestProgress ==
  \A r \in DOMAIN reqs : \A i \in DOMAIN stages :
    LET ps == ProgressOf(reqs[r].frames, stages[i].name)
    IN ps # <<>> => stages[i].message = Displayed(ps[Len(ps)].message)

\* ---- C5
\* C5: when a streamed send has ended in total failure (rejected with nothing
\* received, or an error frame as the only frame), the message list equals
\* the message list before the call.
C5_TotalFailureRestoresMessages ==
  \A r \in DOMAIN reqs :
    (/\ reqs[r].kind = "stream"
     /\ \/ reqs[r].status = "thrown" /\ reqs[r].frames = <<>>
        \/ reqs[r].status = "returned" /\ reqs[r].frames = <<ErrorFrame>>)
    => messages = reqs[r].messagesBefore

\* ---- C6
\* C6: an error frame is reported through the error callback and the stream
\* is not thrown; with a non-empty token received before it the placeholder
\* stays, not streaming, with the concatenation of the tokens as content;
\* otherwise no placeholder remains.
C6_ErrorFrameKeepsPartialContent ==
  [][\A r \in DOMAIN reqs :
       Received(r, ErrorFrame) =>
         LET content == TokensOf(reqs[r].frames)
             id == reqs[r].streamingMessageId
         IN /\ reqs'[r].status = "streaming"
            /\ error' = Str("boom")
            /\ IF content # ""
               THEN /\ Len(messages') = Len(messages)
                    /\ \A i \in DOMAIN messages :
                         messages'[i] =
                           IF messages[i].message_id = id
                           THEN [messages[i] EXCEPT !.isStreaming = FALSE,
                                                    !.content = content]
                           ELSE messages[i]
               ELSE /\ \A i \in DOMAIN messages' : messages'[i].message_id # id
                    /\ messages' = WithoutIds(messages, {id})]_vars

\* the error frame has arrived after the tokens "a" and "b": the request is
\* still streaming and the placeholder holds "ab"
C6_Witness ==
  \E r \in DOMAIN reqs :
    /\ reqs[r].status = "streaming"
    /\ Len(reqs[r].frames) = 3
    /\ reqs[r].frames[3] = ErrorFrame
    /\ error = Str("boom")
    /\ \E i \in DOMAIN messages :
         /\ messages[i].message_id = reqs[r].streamingMessageId
         /\ messages[i].content = "ab"
         /\ ~messages[i].isStreaming

\* ---- C10
\* C10: on the done frame the placeholder is replaced in place by one final
\* assistant message whose tables hold every table of the done payload and
\* every progressively received table, except a progressive table replaced
\* by a done table of the same id.
C10_DoneKeepsEveryTable ==
  [][\A r \in DOMAIN reqs : \A data \in StreamFrames :
       (Field(data, "type") = Str("done") /\ Received(r, data)) =>
         \A i \in DOMAIN messages :
           messages[i].message_id = reqs[r].streamingMessageId =>
             LET final == messages'[i]
                 doneTables == normalizeTableData(Field(data, "tables"))
                 progressive == reqs[r].streamingTables
             IN /\ Len(messages') = Len(messages)
                /\ final.role = "assistant" /\ ~final.isStreaming
                /\ \A k \in DOMAIN doneTables :
                     \E j \in DOMAIN final.tables : final.tables[j] = doneTables[k]
                /\ \A k \in DOMAIN progressive :
                     \/ \E j \in DOMAIN final.tables : final.tables[j] = progressive[k]
                     \/ \E d \in DOMAIN doneTables :
                          /\ doneTables[d].id # Undef
                          /\ doneTables[d].id = progressive[k].id]_vars

\* ---- helpers of the transport properties
RecognizedTypes ==
  {Str("stage_start"), Str("progress"), Str("token"), Str("chunk"),
   Str("stage_complete"), Str("table"), Str("insight"), Str("artifact"),
   Str("research_plan"), Str("done"), Str("error")}

\* a unit that is malformed JSON, or a frame of unrecognized type
IsDropped(u) ==
  \/ u.kind \in {"junk", "null"}
  \/ u.kind = "frame" /\ Field(u.data, "type") \notin RecognizedTypes

\* the same stream without the dropped units
WithoutDropped(sc) ==
  [units |-> SelectSeq(sc.units, LAMBDA u : ~IsDropped(u)),
   tail |-> IF sc.units # <<>> /\ IsDropped(sc.units[Len(sc.units)]) THEN 2
            ELSE sc.tail]

\* chatStream over a body that arrives in one chunk
OneChunk(w) ==
  IF w = <<>> THEN [calls |-> remainingBuffer(<<>>), threw |-> FALSE]
  ELSE LET r == readChunk(<<>>, w)
       IN [calls |-> IF r.threw THEN r.calls
                     ELSE r.calls \o remainingBuffer(r.buffer),
           threw |-> r.threw]

\* the callbacks of the frames among the units, frame by frame
RECURSIVE FrameCalls(_)
FrameCalls(units) ==
  IF units = <<>> THEN <<>>
  ELSE (IF Head(units).kind = "frame" THEN Dispatch(Head(units).data) ELSE <<>>)
       \o FrameCalls(Tail(units))

PendingFrame ==
  /\ script.units # <<>>
  /\ script.tail < 2
  /\ script.units[Len(script.units)].kind = "frame"

\* ---- C7
\* C7: however the body is cut into chunks, the callbacks invoked for the
\* part read so far, and the buffer kept, are those of reading that part in
\* one chunk; when chatStream returns, the callbacks are those of the whole
\* body read in one chunk, and for a body of terminated units they are the
\* frames' callbacks in the order of the frames.
C7_ChunkingIndependent ==
  /\ wstatus = "reading" /\ pos > 0 =>
       readChunk(<<>>, SubSeq(Wire, 1, pos))
         = [buffer |-> buffer, calls |-> calls, threw |-> FALSE]
  /\ wstatus = "returned" => calls = OneChunk(Wire).calls
  /\ wstatus = "returned" /\ script.tail = 2 => calls = FrameCalls(script.units)

\* two frames, the first dispatched, and the last read ended between the two
\* newlines of the second frame's delimiter
C7_Witness ==
  /\ wstatus = "reading"
  /\ Len(script.units) = 2
  /\ \A k \in 1..2 : script.units[k].kind = "frame" /\ ~IsDropped(script.units[k])
  /\ calls = Dispatch(script.units[1].data)
  /\ calls # <<>>
  /\ pos = Len(Wire) - 1
  /\ buffer = encodeUnit(script.units[2]) \o <<NL>>

\* ---- C8
\* C8: chatStream does not throw because of malformed JSON or frames of
\* unrecognized type, and the callbacks it has invoked when it returns are
\* those it invokes for the same body without those frames.
C8_DroppedFramesHaveNoEffect ==
  /\ wstatus # "thrown"
  /\ wstatus = "returned" =>
       calls = OneChunk(encodeUnits(WithoutDropped(script).units,
                                    WithoutDropped(script).tail)).calls

\* a malformed frame followed by a token frame: the token was dispatched
C8_Witness ==
  /\ wstatus = "returned"
  /\ Len(script.units) = 2
  /\ script.units[1].kind = "junk"
  /\ script.units[2] = [kind |-> "frame",
                        data |-> [type |-> Str("token"), content |-> Str("a")]]
  /\ calls = <<[cb |-> "onChunk", chunk |-> "a", done |-> FALSE]>>

\* ---- C9
\* C9: a frame still pending when the stream closes is dispatched on close to
\* the callback, with the arguments, it would get had the delimiter followed
\* it, whatever its recognized type.
C9_PendingFrameDispatchedOnClose ==
  (wstatus = "returned" /\ PendingFrame) =>
    LET n == Len(script.units)
        before == FrameCalls(SubSeq(script.units, 1, n - 1))
        d == Dispatch(script.units[n].data)
    IN \/ calls = before \o d
       \/ d # <<>> /\ calls = before \o <<d[Len(d)]>>

\* ---- helpers of the normalizer properties
RawTablesOf(x) == IF IsArray(x) THEN x.v ELSE <<>>

\* ---- C11
\* C11: normalizing the result of normalizeTableData again gives the same
\* tables, field by field.
C11_NormalizeIdempotent ==
  passes = 2 =>
    /\ Len(renormalized) = Len(normalized)
    /\ \A i \in DOMAIN normalized :
         \A f \in DOMAIN normalized[i] : renormalized[i][f] = normalized[i][f]

\* a table with numeric id, rows with a number, a null and a non-array row,
\* typed columns and legacy headers has been normalized twice
C11_Witness ==
  /\ passes = 2
  /\ Len(normalized) = 1
  /\ rawTables.v[1].id = Num(7)
  /\ normalized[1].id = Str("7")
  /\ normalized[1].rows = Arr(<<Arr(<<Str("1"), Str("")>>), Arr(<<>>)>>)
  /\ normalized[1].columns
       = Arr(<<[t |-> "object", name |-> Str("Price"), type |-> Str("string"),
                unit |-> Str("5"), description |-> Undef, format |-> Undef],
               [t |-> "object", name |-> Str(""), type |-> Str("currency"),
                unit |-> Undef, description |-> Undef, format |-> Undef]>>)
  /\ normalized[1].headers = Arr(<<Str("H"), Str(""), Str("2")>>)

\* ---- C12
\* C12 (as stated): a normalized table has columns and no headers when typed
\* columns are present, the legacy headers when only those are present, and
\* the empty header list when neither is present.
C12_ExactlyOneHeaderDescription ==
  passes >= 1 =>
    \A i \in DOMAIN normalized :
      LET raw == RawTablesOf(rawTables)[i]
          n == normalized[i]
      IN IF IsArray(raw.columns)
         THEN IsArray(n.columns) /\ n.headers = Undef
         ELSE /\ n.columns = Undef
              /\ IsArray(n.headers)
              /\ ~IsArray(raw.headers) => n.headers = Arr(<<>>)

\* C12 (amended): a normalized table has columns exactly when the raw table
\* has a columns array; it has the stringified legacy headers whenever the
\* raw table has a headers array, also beside columns; with neither it has
\* the empty header list; so columns or headers is always an array.
C12_HeadersCarriedBesideColumns ==
  passes >= 1 =>
    \A i \in DOMAIN normalized :
      LET raw == RawTablesOf(rawTables)[i]
          n == normalized[i]
      IN /\ IsArray(n.columns) <=> IsArray(raw.columns)
         /\ ~IsArray(raw.columns) => n.columns = Undef
         /\ IsArray(raw.headers) =>
              /\ IsArray(n.headers)
              /\ Len(n.headers.v) = Len(raw.headers.v)
              /\ \A k \in DOMAIN raw.headers.v :
                   n.headers.v[k] = Str(JSString(Coalesce(raw.headers.v[k], Str(""))))
         /\ (~IsArray(raw.headers) /\ ~IsArray(raw.columns)) => n.headers = Arr(<<>>)
         /\ (~IsArray(raw.headers) /\ IsArray(raw.columns)) => n.headers = Undef
         /\ IsArray(n.columns) \/ IsArray(n.headers)

\* a raw table with both typed columns and legacy headers: both are kept
C12_Witness ==
  /\ passes >= 1
  /\ Len(normalized) = 1
  /\ IsArray(rawTables.v[1].columns)
  /\ IsArray(rawTables.v[1].headers)
  /\ IsArray(normalized[1].columns)
  /\ normalized[1].headers = Arr(<<Str("H"), Str(""), Str("2")>>)

\* ---- helpers of the progress display properties
Terminal(p) == p.progress >= 1000 \/ p.stage = "done"

\* ---- C13
\* C13: a displayed non-terminal triple is replaced by a different
\* non-terminal triple no earlier than 800 ms after it was displayed.
C13_NonTerminalDwells800 ==
  [][(displayed' # displayed /\ ~Terminal(displayed) /\ ~Terminal(displayed'))
       => clock' >= displayedSince + 800]_vars

\* ---- C14
\* C14: a terminal update is the displayed state as soon as it has arrived,
\* and no delayed update stays scheduled behind it.
C14_TerminalShownImmediately ==
  Terminal(props) =>
    /\ displayed = props
    /\ timeoutDue = NoTimeout
    /\ pendingUpdate = Null

\* a terminal update with progress 1.0 and a stage other than done arrived
\* 300 ms after the last non-terminal display and is displayed since then
C14_Witness ==
  /\ props = Triple("Writing", "compose", 1000)
  /\ displayed = props
  /\ clock = 300
  /\ lastUpdateTime = 0
  /\ displayedSince = 300

\* ---- C15
\* C15 (as stated): the display only ever changes to the latest update
\* received, and once no delayed update is scheduled the displayed triple
\* equals the latest update received.
C15_DisplayedEqualsLatest ==
  timeoutDue = NoTimeout => displayed = props

\* the displayed state against the latest update: while the dwell window is
\* open exactly the latest update is pending, due 800 ms after the last
\* display; once nothing is pending the displayed triple has the status and
\* stage of the latest update and a progress within 0.01 of it
LatestPendingOrShown ==
  /\ timeoutDue # NoTimeout =>
       /\ pendingUpdate = props
       /\ timeoutDue = lastUpdateTime + 800
       /\ clock <= timeoutDue
  /\ timeoutDue = NoTimeout =>
       /\ displayed.status = props.status
       /\ displayed.stage = props.stage
       /\ displayed.progress - props.progress \in -10..10

\* C15 (amended): whenever the displayed triple changes it changes to the
\* latest update received, so no superseded update is ever displayed; while
\* the window is open only the latest update is pending; and when the window
\* has elapsed the displayed triple is the latest update, up to a progress
\* difference of at most 0.01 with equal status and stage.
C15_CollapseToLatest ==
  /\ []LatestPendingOrShown
  /\ [][displayed' # displayed => displayed' = props']_vars

\* two updates have arrived within one dwell window; the window elapses now
\* and the later one is the pending one
C15_Witness ==
  /\ clock = 800
  /\ timeoutDue = 800
  /\ updatesInWindow = 2
  /\ displayed = Triple("Classifying request", "routing", 300)
  /\ pendingUpdate = Triple("Found 48 sources", "research", 600)
  /\ props = pendingUpdate

\* ---- helpers of the stage map and navigation properties
\* the stages the events of the frames name
RECURSIVE StagesTouched(_)
StagesTouched(frames) ==
  IF frames = <<>> THEN {}
  ELSE LET cs == Dispatch(Head(frames))
       IN {cs[k].stage : k \in {j \in DOMAIN cs :
                                  cs[j].cb \in {"onProgress", "onStageStart",
                                                "onStageComplete"}}}
          \cup StagesTouched(Tail(frames))

\* ---- C16
\* C16: while the streamed request started last is in flight, every entry of
\* the stage map belongs to a stage named by an event of that request.
C16_StagesOnlyFromCurrentRequest ==
  \A r \in DOMAIN reqs :
    (r = Len(reqs) /\ reqs[r].kind = "stream" /\ Open(r)) =>
      \A i \in DOMAIN stages : stages[i].name \in StagesTouched(reqs[r].frames)

\* ---- C17
\* C17: newChat leaves an in-flight stream as it is, and a done frame that
\* arrives later for a request made without session id still writes its
\* session id into sessionId and into the saved session id.
C17_LateEventsWriteAfterNewChat ==
  /\ [][(savedSessionId' = Str("new") /\ savedSessionId # Str("new"))
          => reqs' = reqs]_vars
  /\ [][\A r \in DOMAIN reqs : \A data \in StreamFrames :
          (/\ Field(data, "type") = Str("done")
           /\ Received(r, data)
           /\ ~Truthy(reqs[r].sessionId))
          => /\ sessionId' = Field(data, "session_id")
             /\ savedSessionId' = Field(data, "session_id")]_vars

\* newChat emptied the list while the stream was in flight, and the done
\* frame that came afterwards set the session id of the new chat
C17_Witness ==
  /\ messages = <<>>
  /\ sessionId = Str("s1")
  /\ savedSessionId = Str("s1")
  /\ \E r \in DOMAIN reqs :
       /\ reqs[r].status = "streaming"
       /\ reqs[r].frames # <<>>
       /\ Field(reqs[r].frames[Len(reqs[r].frames)], "type") = Str("done")


\* ---------------------------------------------------- the chat page
\* deleteChat of the active chat has ended and the backend accepted it
DeletedActive ==
  /\ pageOp.kind = "delete" /\ pageOp.phase = "done"
  /\ pageOp.outcome = "accepted" /\ pageOp.wasActive

\* C18: when a delete of the active session that the backend accepted has
\* ended, the active chat id and the hook's sessionId are null, neither the
\* page nor the hook holds a message, and no chat of the list has the
\* deleted id.
C18_DeleteActiveEndsWithNewChat ==
  DeletedActive =>
    /\ activeChatId = Null
    /\ sessionId = Null
    /\ pageMessages = <<>>
    /\ messages = <<>>
    /\ \A i \in 1..Len(chats) : chats[i].id # pageOp.id

\* the active chat had messages on display, and another chat is still listed
C18_Witness ==
  /\ DeletedActive
  /\ Len(pageOp.snapshot.messages) > 0
  /\ pageOp.snapshot.activeChatId = Str(pageOp.id)
  /\ Len(chats) > 0

\* C19: when a rename or delete that the backend rejected has ended, the chat
\* list, the active chat id and the displayed messages are the ones the page
\* showed before the operation.
C19_RejectedOperationReverts ==
  (pageOp.phase = "done" /\ pageOp.outcome = "rejected") =>
    Snapshot = pageOp.snapshot

\* ------------------------------------------------------ RateLimiter
\* the calls for key that were allowed less than windowMs before t
AllowedWithin(key, t) ==
  Cardinality({i \in 1..Len(allowedLog[key]) :
                 t - allowedLog[key][i] < limiter.windowMs})

\* no more than maxRequests allowed calls for a key fall into an interval
\* shorter than windowMs
WindowBound ==
  \A key \in LimiterKeys : \A i \in 1..Len(allowedLog[key]) :
    Cardinality({j \in i..Len(allowedLog[key]) :
                   allowedLog[key][j] - allowedLog[key][i] < limiter.windowMs})
      <= limiter.maxRequests

\* C20: isAllowed(key) returns true exactly when fewer than maxRequests of the
\* calls it allowed before for that key are less than windowMs old (calls it
\* rejected do not count), and so at most maxRequests calls per key are
\* allowed in any interval shorter than windowMs; the instances allow 5
\* (chat), 20 (sessions) and 30 (general) calls per 60 000 ms.
C20_AllowedIffUnderLimit ==
  /\ [][(lastCall' # lastCall \/ allowedLog' # allowedLog) =>
          (lastCall'.result <=>
             AllowedWithin(lastCall'.key, limiterNow) < limiter.maxRequests)]_vars
  /\ []WindowBound
  /\ [](limiter \in {[name |-> "chat", maxRequests |-> 5, windowMs |-> 60000],
                      [name |-> "sessions", maxRequests |-> 20, windowMs |-> 60000],
                      [name |-> "general", maxRequests |-> 30, windowMs |-> 60000]})

\* the chat limiter has just rejected a call for 'chat', 59 999 ms after it
\* allowed five, while key 'default' has calls allowed
C20_Witness ==
  /\ limiter.name = "chat"
  /\ lastCall = [key |-> "chat", at |-> 59999, result |-> FALSE]
  /\ allowedLog["chat"] = <<0, 0, 0, 0, 0>>
  /\ Len(allowedLog["default"]) > 0

\* ------------------------------------------- chat requests and the limiter
\* the chat requests issued less than ChatWindowMs before now
RecentRequests == {r \in DOMAIN reqs : now - reqs[r].userMessageId.t < ChatWindowMs}

\* C21: every chat request, streamed or not, has passed chatRateLimiter, so
\* the requests issued within the last 60 000 ms are calls the limiter
\* counted, and there are at most 5 of them.
C21_EveryRequestPassesLimiter ==
  /\ Cardinality(RecentRequests) <= Len(validRequests(chatLimiter, now, ChatWindowMs))
  /\ Cardinality(RecentRequests) <= ChatMaxRequests

\* a step in which an invocation of sendMessage or sendMessageStream got past
\* its guard: it issued a request, or chat() refused it at the rate limiter
SendStep ==
  \/ Len(reqs') > Len(reqs)
  \/ /\ reqs' = reqs /\ chatLimiter' = chatLimiter
     /\ error' = Str("Rate limit exceeded") /\ loading' = FALSE
     /\ ~isAllowed(chatLimiter, now', ChatMaxRequests, ChatWindowMs)

\* C22: a send invoked while loading is true changes neither the message
\* list, the stage map, progress, the research plan, error nor sessionId, and
\* issues no request.
C22_SendWhileLoadingIsNoOp ==
  [][(loading /\ SendStep) =>
       UNCHANGED <<messages, stages, progress, researchPlan, error, sessionId, reqs>>]_vars

\* -------------------------------------------------- the hook's sessions
\* C28: currentSession is null or is the session sessionId names.
C28_CurrentSessionMatchesSessionId ==
  currentSession = Null \/ Str(currentSession.session_id) = sessionId

\* the call i has just settled with an authorization failure
SettledUnauthorized(i) ==
  /\ i \in DOMAIN sessionCalls
  /\ sessionCalls[i].status = "pending"
  /\ sessionCalls'[i].status # "pending"
  /\ sessionCalls'[i].http \in {401, 403}

\* C23: a loadSessions or loadSession call whose session endpoint answers 401
\* or 403 does not reject, leaves the error state unset, and leaves the store
\* ready for a send (loading stays false).
C23_AuthorizationFailureIsSoft ==
  [][\A i \in DOMAIN sessionCalls :
       SettledUnauthorized(i) =>
         /\ sessionCalls'[i].status = "resolved"
         /\ error' = Null
         /\ ~loading']_vars

\* both of two overlapping loadSession calls have resolved with 200
OverlappedLoads ==
  /\ Len(sessionCalls) = 2
  /\ \A i \in 1..2 : /\ sessionCalls[i].kind = "loadSession"
                     /\ sessionCalls[i].status = "resolved"
                     /\ sessionCalls[i].http = 200
  /\ sessionCalls[2].overlaps
  /\ sessionCalls[1].sid # sessionCalls[2].sid

\* C27: once two overlapping session selections have both completed, the
\* session id, the current session and the messages are those of the session
\* selected last.
C27_LastSelectionWins ==
  OverlappedLoads =>
    /\ sessionId = Str(sessionCalls[2].sid)
    /\ currentSession # Null /\ currentSession.session_id = sessionCalls[2].sid
    /\ messages = LoadedMessages(Str(sessionCalls[2].sid))

\* ------------------------------------------------------ the stage map
\* the entry of stage name in the stage map stgs (when it has one)
StageEntry(stgs, name) == stgs[StagePos(stgs, name)]

\* stage_start frames that carry no message of their own
PlainStageStarts ==
  {data \in StageFrames : Field(data, "type") = Str("stage_start")
                          /\ ~Truthy(Field(data, "message"))}

\* C24: a stage_start event creates, for a stage without entry, an active
\* entry with progress 0 and the generic starting message; for an entry that
\* has the generic message it sets index and total and keeps status and
\* progress; for an entry with a backend message it keeps the message.
C24_StageStartPreservesEntry ==
  [][\A r \in DOMAIN reqs : \A data \in PlainStageStarts :
       Received(r, data) =>
         LET stage == data.stage.v
             after == StageEntry(stages', stage)
         IN /\ StagePos(stages', stage) # 0
            /\ after.stageIndex = data.stage_index
            /\ after.totalStages = data.total_stages
            /\ IF StagePos(stages, stage) = 0
               THEN /\ after.status = "active"
                    /\ after.progress = 0
                    /\ after.message = StartingMessage(stage)
               ELSE IF StageEntry(stages, stage).message = StartingMessage(stage)
               THEN /\ after.status = StageEntry(stages, stage).status
                    /\ after.progress = StageEntry(stages, stage).progress
               ELSE after.message = StageEntry(stages, stage).message]_vars

\* C25: every stored progress value lies in [0,1], whatever number a
\* progress frame carries.
C25_StoredProgressInUnitInterval ==
  \A i \in DOMAIN stages : stages[i].progress \in 0..10

\* the stage maps with the entries of stages inserted in any other order
Reorderings(stgs) == {Permuted(stgs, p) : p \in Perms(Len(stgs))}

\* C26: the active-stage pick is determined by the contents of the stage
\* map alone: the indicator has one pick, and the same one for every order
\* in which the entries were inserted.
C26_ActivePickIgnoresInsertionOrder ==
  \A other \in Reorderings(stages) :
    /\ Cardinality(ActivePicks(stages)) = 1
    /\ ActivePicks(other) = ActivePicks(stages)

\* C29: the overall progress of a non-empty stage map lies in [0,1] when
\* the progress values of the stream do, the 'done' entry included.
C29_OverallProgressInUnitInterval ==
  LET n == Len(stages)
      d == DivisorProduct(stages, n)
  IN stages # <<>> =>
       /\ WeightedSum(stages, n, d) >= 0
       /\ WeightedSum(stages, n, d) <= 10 * d

\* C30: any two successive invocations of the throttled function are at
\* least waitMs apart.
C30_InvocationsAtLeastWaitApart ==
  \A i \in 2..Len(throttled.invoked) :
    throttled.invoked[i] - throttled.invoked[i - 1] >= throttled.waitMs

====
